---- MODULE Spec2Model ----
(***************************************************************************)
(* rrr-make: a source directory of records is loaded (owned/record.rs),    *)
(* and compiled by the recursive emitter (lib.rs) into a versioned target  *)
(* registry; owned/registry.rs generates and loads the owned registry;     *)
(* util/serde.rs holds the three-valued option encoding.                   *)
(*                                                                         *)
(* Specifications of this module:                                          *)
(*   Spec          make run repeatedly on a source directory that is edited *)
(*                 between the runs: load, then the recursive emitter      *)
(*   SpecData      OwnedRecord::get_data_paths on one record directory     *)
(*   SpecSerde     TOML serialisation and deserialisation of ExplicitOption *)
(*                 and DoubleOption fields                                 *)
(*   SpecGenerate  OwnedRegistry::generate on one target directory         *)
(*   SpecLoad      OwnedRecord::load_from_directory on one source directory *)
(*   SpecLock      concurrent invocations that lock the owned registry     *)
(*   SpecResolve   the merge of a record's parameters with the defaults    *)
(*   SpecRead      OwnedRecord::read on one record directory               *)
(*   SpecFail      one make run in which a registry call may fail          *)
(*   SpecHandle    two processes that load, convert, save and drop handles *)
(*                 of one registry directory                               *)
(***************************************************************************)
EXTENDS Naturals, Integers, Sequences, FiniteSets, TLC

VARIABLES
    \* ---- SpecData: one record directory and the result of get_data_paths
    dirEntries,     \* the entries of the record directory (read_dir)
    dataPaths,      \* the Result of get_data_paths, NotCalled before the call
    splittingStrategy,  \* SpecRead: the record's resolved splitting strategy
    readResult,     \* SpecRead: the Result of read, NotCalled before the call
    \* ---- SpecSerde: validate_serde_of(original, ..) of util/serde.rs
    original,       \* the root struct given: [root, ty, optional_field]
    serialized,     \* toml::to_string(&original), NotCalled before the call
    deserialized,   \* toml::from_str::<T>(&serialized), NotCalled before the call
    \* ---- SpecGenerate: OwnedRegistry::generate(directory_path, overwrite)
    regDir,         \* what is at directory_path: [kind, entries]
    regDirBefore,   \* regDir as it was when generate was called
    overwrite,      \* the overwrite argument of the call
    generated,      \* the Result of generate, NotCalled before the call
    downgraded,     \* the Result of lock_read on the generated registry
    loadArgs,       \* of the call of load: [lock, held], the lock type asked
                    \* for and the lock then held by the generated registry
    reloaded,       \* the Result of load on the directory, NotCalled before
    \* ---- SpecLoad: OwnedRegistry::load_root_record on a source directory
    loadDirs,       \* the record directories: path -> [toml, entries]
    loadOrder,      \* the order in which read_dir lists subdirectories
    loaded,         \* the Result of load_root_record, NotCalled before the call
    \* ---- Spec: Command::Make run on a source directory, again and again
    srcDir,         \* the record directories of the source: path -> [toml, entries]
    target,         \* the staging registry: a set of [hashed_key, version, record]
    pc,             \* "idle", or "making" while make_recursive runs
    stack,          \* the calls of make_recursive still to run, next first
    stats,          \* MakeRecursiveStatistics of the run
    run,            \* of the run in progress: [src, before, tree, emitted]
    lastRun,        \* the last run that ended: run and [after, outcome]
    prevRun,        \* the run that ended before lastRun
    runs,           \* the number of runs started
    edits,          \* the number of edits made to the source directory
    \* ---- SpecLock: invocations that lock registry.toml of one source directory
    lockHeld,       \* the lock each invocation holds: "none", "ReadLock", "WriteLock"
    procPc,         \* where each invocation is
    \* ---- SpecResolve: try_resolve_with on a record config and default parameters
    recordParameters,   \* the unresolved parameters of the record config
    defaultParameters,  \* the registry's default_record_parameters
    resolvedConfig, \* the Result of try_resolve_with, NotCalled before the call
    \* ---- SpecHandle: registry.toml and the OwnedRegistry handles on it
    configFile,     \* the content of registry.toml: the chunks written, in order
    handles         \* for each process, the OwnedRegistry it holds if any

dataVars == <<dirEntries, dataPaths, splittingStrategy, readResult>>
serdeVars == <<original, serialized, deserialized>>
genVars == <<regDir, regDirBefore, overwrite, generated, downgraded, loadArgs, reloaded>>
loadVars == <<loadDirs, loadOrder, loaded>>
makeVars == <<srcDir, target, pc, stack, stats, run, lastRun, prevRun, runs, edits>>
lockVars == <<lockHeld, procPc>>
resolveVars == <<recordParameters, defaultParameters, resolvedConfig>>
handleVars == <<configFile, handles>>
vars == <<dataVars, serdeVars, genVars, loadVars, makeVars, lockVars, resolveVars,
          handleVars>>

----------------------------------------------------------------------------
\* Option<T> and Result<T, E> of the source.

None == [tag |-> "None"]
Some(v) == [tag |-> "Some", val |-> v]
IsSome(o) == o.tag = "Some"

Ok(v) == [tag |-> "Ok", val |-> v]
Err(e) == [tag |-> "Err", err |-> e]
IsOk(r) == r.tag = "Ok"
IsErr(r) == r.tag = "Err"

NotCalled == [tag |-> "NotCalled"]
Panic(message) == [tag |-> "Panic", message |-> message]

\* What is at the path of a registry directory: nothing, a file, or a directory
\* with its entries.
MissingDir == [kind |-> "missing", entries |-> {}]
NotADir == [kind |-> "file", entries |-> {}]
Dir(entries) == [kind |-> "dir", entries |-> entries]

\* The variables of the specifications that a specification does not use.
DataUnused ==
    /\ dirEntries = {}
    /\ dataPaths = NotCalled
    /\ splittingStrategy = "Fill"
    /\ readResult = NotCalled

SerdeUnused ==
    /\ original = NotCalled
    /\ serialized = NotCalled
    /\ deserialized = NotCalled

GenUnused ==
    /\ regDir = MissingDir
    /\ regDirBefore = MissingDir
    /\ overwrite = FALSE
    /\ generated = NotCalled
    /\ downgraded = NotCalled
    /\ loadArgs = NotCalled
    /\ reloaded = NotCalled

LoadUnused ==
    /\ loadDirs = <<>>
    /\ loadOrder = <<>>
    /\ loaded = NotCalled

MakeUnused ==
    /\ srcDir = <<>>
    /\ target = None
    /\ pc = "unused"
    /\ stack = <<>>
    /\ stats = NotCalled
    /\ run = NotCalled
    /\ lastRun = NotCalled
    /\ prevRun = NotCalled
    /\ runs = 0
    /\ edits = 0

LockUnused ==
    /\ lockHeld = <<>>
    /\ procPc = <<>>

HandleUnused ==
    /\ configFile = <<>>
    /\ handles = <<>>

ResolveUnused ==
    /\ recordParameters = None
    /\ defaultParameters = None
    /\ resolvedConfig = NotCalled

\* The sequences over S that list every element of S exactly once.
Perms(S) ==
    {f \in [1..Cardinality(S) -> S] : \A x \in S : \E i \in DOMAIN f : f[i] = x}

----------------------------------------------------------------------------
\* File names are sequences of one-character strings, so that the splitting on
\* '.' and the parsing of the index are computed as the code computes them.

\* The characters the model's file names use, in byte order.
Alphabet ==
    <<"+", ".", "0", "1", "2", "3", "4", "5", "6", "7", "8", "9",
      "a", "b", "d", "i", "n", "t", "x">>

Code(c) == CHOOSE i \in DOMAIN Alphabet : Alphabet[i] = c

Digits == <<"0", "1", "2", "3", "4", "5", "6", "7", "8", "9">>

IsDigit(c) == \E i \in DOMAIN Digits : Digits[i] = c

DigitValue(c) == (CHOOSE i \in DOMAIN Digits : Digits[i] = c) - 1

\* Byte-wise lexicographic order of two names (Ord of PathBuf inside one directory).
RECURSIVE LexLess(_, _)
LexLess(a, b) ==
    IF b = <<>> THEN FALSE
    ELSE IF a = <<>> THEN TRUE
    ELSE IF Code(Head(a)) # Code(Head(b)) THEN Code(Head(a)) < Code(Head(b))
    ELSE LexLess(Tail(a), Tail(b))

\* slice.splitn(2, |byte| *byte == b'.'): the part before the first '.', and the
\* rest after it (None when there is no '.').
SplitN2(s) ==
    IF \E i \in DOMAIN s : s[i] = "."
    THEN LET i == CHOOSE j \in DOMAIN s : s[j] = "." /\ \A k \in 1..(j - 1) : s[k] # "."
         IN  <<SubSeq(s, 1, i - 1), Some(SubSeq(s, i + 1, Len(s)))>>
    ELSE <<s, None>>

RECURSIVE DecimalValue(_)
DecimalValue(s) ==
    IF s = <<>> THEN 0
    ELSE 10 * DecimalValue(SubSeq(s, 1, Len(s) - 1)) + DigitValue(s[Len(s)])

\* str::parse::<usize>: an optional '+', then at least one digit, digits only.
ParseUsize(s) ==
    LET digits == IF s # <<>> /\ Head(s) = "+" THEN Tail(s) ELSE s
    IN  IF digits # <<>> /\ \A i \in DOMAIN digits : IsDigit(digits[i])
        THEN Some(DecimalValue(digits))
        ELSE None

FILE_STEM_DATA == <<"d", "a", "t", "a">>

\* The (Option<usize>, PathBuf) pushed for one regular file whose stem is "data":
\* Some(index) only for data.<N>.<rest> with N parsing as usize.
DataFileIndex(name) ==
    LET extensions == SplitN2(name)[2]
    IN  IF IsSome(extensions)
        THEN LET parts == SplitN2(extensions.val)
             IN  IF IsSome(parts[2]) THEN ParseUsize(parts[1]) ELSE None
        ELSE None

\* The loop over read_dir: regular files whose first segment is exactly "data".
DataFileResults(entries) ==
    {[index |-> DataFileIndex(e.name), path |-> e.name] :
        e \in {x \in entries : x.is_file /\ SplitN2(x.name)[1] = FILE_STEM_DATA}}

\* Ord of (Option<usize>, PathBuf): None before Some, then the index, then the path.
ResultLess(a, b) ==
    IF a.index = b.index THEN LexLess(a.path, b.path)
    ELSE IF ~IsSome(a.index) THEN TRUE
    ELSE IF ~IsSome(b.index) THEN FALSE
    ELSE a.index.val < b.index.val

\* results.sort_unstable()
SortResults(results) ==
    CHOOSE s \in Perms(results) :
        \A i \in 1..(Len(s) - 1) : ResultLess(s[i], s[i + 1])

\* get_data_paths without the loop that ensures the contiguity of the indexes.
GetDataPaths_NoContiguityCheck(entries) ==
    LET results == SortResults(DataFileResults(entries))
        n == Len(results)
        indexed == n > 0 /\ IsSome(results[1].index)
    IN  IF n = 0 THEN Ok(<<>>)
        ELSE IF \E i \in 1..n : IsSome(results[i].index) # indexed
        THEN Err("MixedIndexedAndNonIndexed")
        ELSE IF \E i \in 1..(n - 1) : results[i].index = results[i + 1].index
        THEN IF indexed THEN Err("DuplicateIndex") ELSE Err("MultipleNonIndexed")
        ELSE Ok([i \in 1..n |-> results[i].path])

\* OwnedRecord::get_data_paths
GetDataPaths(entries) ==
    LET results == SortResults(DataFileResults(entries))
        n == Len(results)
        indexed == n > 0 /\ IsSome(results[1].index)
    IN  IF n = 0 THEN Ok(<<>>)
        ELSE IF \E i \in 1..n : IsSome(results[i].index) # indexed
        THEN Err("MixedIndexedAndNonIndexed")
        ELSE IF \E i \in 1..(n - 1) : results[i].index = results[i + 1].index
        THEN IF indexed THEN Err("DuplicateIndex") ELSE Err("MultipleNonIndexed")
        ELSE IF indexed
                /\ \E i \in 1..(n - 1) : results[i].index.val + 1 # results[i + 1].index.val
        THEN Err("NotContiguous")
        ELSE Ok([i \in 1..n |-> results[i].path])

----------------------------------------------------------------------------
\* util/serde.rs: ExplicitOption<T>, ExplicitNone and DoubleOption<T>, with the
\* TOML forms serde gives them.  A TOML value is a string, an integer or a table;
\* a table (and a document) is a set of key/value pairs.

TStr(s) == [kind |-> "string", s |-> s, n |-> 0, fields |-> {}]
TInt(n) == [kind |-> "integer", s |-> "", n |-> n, fields |-> {}]
TTable(fields) == [kind |-> "table", s |-> "", n |-> 0, fields |-> fields]
KV(k, v) == [key |-> k, value |-> v]

HasKey(fields, k) == \E f \in fields : f.key = k
ValueOf(fields, k) == (CHOOSE f \in fields : f.key = k).value
Keys(fields) == {f.key : f \in fields}

\* Values of the types T the field is instantiated with: String, u64, the Struct
\* and Enum of tests::explicit_option_toml, and the record's unresolved encryption
\* parameters (the T of OwnedRecordConfigParametersUnresolved::encryption).
VString(s) == [ty |-> "String", variant |-> "", s |-> s, n |-> 0, alg |-> None, pad |-> None]
VU64(n) == [ty |-> "u64", variant |-> "", s |-> "", n |-> n, alg |-> None, pad |-> None]
VStruct(hello) ==
    [ty |-> "Struct", variant |-> "", s |-> hello, n |-> 0, alg |-> None, pad |-> None]
VEnumHello(n) ==
    [ty |-> "Enum", variant |-> "Hello", s |-> "", n |-> n, alg |-> None, pad |-> None]
VEnumWorld(s) ==
    [ty |-> "Enum", variant |-> "World", s |-> s, n |-> 0, alg |-> None, pad |-> None]
VEncryption(algorithm, padding) ==
    [ty |-> "Encryption", variant |-> "", s |-> "", n |-> 0,
     alg |-> algorithm, pad |-> padding]

\* T::serialize: the natural TOML form of a value of T (a None field of the
\* encryption parameters is left out of their table).
SerializeT(val) ==
    CASE val.ty = "String" -> TStr(val.s)
      [] val.ty = "u64" -> TInt(val.n)
      [] val.ty = "Struct" -> TTable({KV("hello", TStr(val.s))})
      [] val.ty = "Enum" ->
            IF val.variant = "Hello"
            THEN TTable({KV("Hello", TInt(val.n))})
            ELSE TTable({KV("World", TStr(val.s))})
      [] val.ty = "Encryption" ->
            TTable((IF IsSome(val.alg) THEN {KV("algorithm", TStr(val.alg.val))} ELSE {})
                   \cup (IF IsSome(val.pad)
                         THEN {KV("segment_padding_to_bytes", TInt(val.pad.val))}
                         ELSE {}))

\* T::deserialize from a TOML value.
DeserializeT(ty, x) ==
    CASE ty = "String" ->
            IF x.kind = "string" THEN Ok(VString(x.s)) ELSE Err("invalid type")
      [] ty = "u64" ->
            IF x.kind = "integer" THEN Ok(VU64(x.n)) ELSE Err("invalid type")
      [] ty = "Struct" ->
            IF x.kind # "table" THEN Err("invalid type")
            ELSE IF ~HasKey(x.fields, "hello") THEN Err("missing field")
            ELSE IF ValueOf(x.fields, "hello").kind # "string" THEN Err("invalid type")
            ELSE Ok(VStruct(ValueOf(x.fields, "hello").s))
      [] ty = "Enum" ->
            IF x.kind # "table" \/ Cardinality(x.fields) # 1 THEN Err("invalid type")
            ELSE IF HasKey(x.fields, "Hello") /\ ValueOf(x.fields, "Hello").kind = "integer"
            THEN Ok(VEnumHello(ValueOf(x.fields, "Hello").n))
            ELSE IF HasKey(x.fields, "World") /\ ValueOf(x.fields, "World").kind = "string"
            THEN Ok(VEnumWorld(ValueOf(x.fields, "World").s))
            ELSE Err("unknown variant")
      [] ty = "Encryption" ->
            IF x.kind # "table" THEN Err("invalid type")
            ELSE IF HasKey(x.fields, "algorithm")
                    /\ ValueOf(x.fields, "algorithm").kind # "string"
            THEN Err("invalid type")
            ELSE IF HasKey(x.fields, "segment_padding_to_bytes")
                    /\ ValueOf(x.fields, "segment_padding_to_bytes").kind # "integer"
            THEN Err("invalid type")
            ELSE Ok(VEncryption(
                    IF HasKey(x.fields, "algorithm")
                    THEN Some(ValueOf(x.fields, "algorithm").s) ELSE None,
                    IF HasKey(x.fields, "segment_padding_to_bytes")
                    THEN Some(ValueOf(x.fields, "segment_padding_to_bytes").n) ELSE None))

\* ExplicitNone::VALUE
ExplicitNone_VALUE == "none"

\* ExplicitOption<T>: None(ExplicitNone) | Some(T)
ExplicitOption_None == [tag |-> "ExplicitOption::None"]
ExplicitOption_Some(val) == [tag |-> "ExplicitOption::Some", val |-> val]

\* impl Serialize for ExplicitNone, and the untagged Serialize of ExplicitOption.
SerializeExplicitOption(eo) ==
    IF eo = ExplicitOption_None THEN TStr(ExplicitNone_VALUE) ELSE SerializeT(eo.val)

\* impl Deserialize for ExplicitNone: deserialize_any with a visitor that has
\* visit_str only.
DeserializeExplicitNone(x) ==
    IF x.kind # "string" THEN Err("invalid type")
    ELSE IF x.s = ExplicitNone_VALUE THEN Ok(ExplicitOption_None)
    ELSE Err("invalid value")

\* The untagged enum tried with the variant Some(T) before None(ExplicitNone).
DeserializeExplicitOption_SomeFirst(ty, x) ==
    IF IsOk(DeserializeT(ty, x)) THEN Ok(ExplicitOption_Some(DeserializeT(ty, x).val))
    ELSE IF IsOk(DeserializeExplicitNone(x)) THEN Ok(ExplicitOption_None)
    ELSE Err("data did not match any variant of untagged enum ExplicitOption")

\* #[serde(untagged)] Deserialize of ExplicitOption<T>: the variants are tried in
\* the order of declaration, None(ExplicitNone) first, then Some(T).
DeserializeExplicitOption(ty, x) ==
    IF IsOk(DeserializeExplicitNone(x)) THEN Ok(ExplicitOption_None)
    ELSE IF IsOk(DeserializeT(ty, x)) THEN Ok(ExplicitOption_Some(DeserializeT(ty, x).val))
    ELSE Err("data did not match any variant of untagged enum ExplicitOption")

FIELD == "optional_field"

\* toml::to_string of RootExplicit<T> { optional_field: ExplicitOption<T> } and of
\* RootDouble<T> { optional_field: DoubleOption<T> }: a None field is left out.
SerializeRoot(r) ==
    IF r.root = "RootExplicit"
    THEN {KV(FIELD, SerializeExplicitOption(r.optional_field))}
    ELSE IF r.optional_field = None THEN {}
    ELSE {KV(FIELD, SerializeExplicitOption(r.optional_field.val))}

\* toml::from_str of the same structs: a missing Option field is None.
DeserializeRoot(root, ty, doc) ==
    IF ~HasKey(doc, FIELD)
    THEN IF root = "RootDouble"
         THEN Ok([root |-> root, ty |-> ty, optional_field |-> None])
         ELSE Err("missing field")
    ELSE LET eo == DeserializeExplicitOption(ty, ValueOf(doc, FIELD))
         IN  IF IsErr(eo) THEN eo
             ELSE Ok([root |-> root, ty |-> ty,
                      optional_field |-> IF root = "RootDouble" THEN Some(eo.val)
                                         ELSE eo.val])

----------------------------------------------------------------------------
\* SpecSerde: validate_serde_of on every small root struct.

MaxSerdeInt == 1

SerdeStrings == {"none", "World", ""}

SerdeValues ==
    {VString(s) : s \in SerdeStrings} \cup {VU64(n) : n \in 0..MaxSerdeInt}
    \cup {VStruct(s) : s \in SerdeStrings}
    \cup {VEnumHello(n) : n \in 0..MaxSerdeInt} \cup {VEnumWorld(s) : s \in SerdeStrings}
    \cup {VEncryption(a, p) : a \in {None, Some("Aes256Gcm")}, p \in {None, Some(1024)}}

SerdeTypes == {val.ty : val \in SerdeValues}

SerdeRoots ==
    {[root |-> "RootExplicit", ty |-> ty, optional_field |-> ExplicitOption_None] :
        ty \in SerdeTypes}
    \cup {[root |-> "RootExplicit", ty |-> val.ty, optional_field |-> ExplicitOption_Some(val)] :
        val \in SerdeValues}
    \cup {[root |-> "RootDouble", ty |-> ty, optional_field |-> None] : ty \in SerdeTypes}
    \cup {[root |-> "RootDouble", ty |-> ty, optional_field |-> Some(ExplicitOption_None)] :
        ty \in SerdeTypes}
    \cup {[root |-> "RootDouble", ty |-> val.ty,
           optional_field |-> Some(ExplicitOption_Some(val))] : val \in SerdeValues}

InitSerde ==
    /\ original \in SerdeRoots
    /\ serialized = NotCalled
    /\ deserialized = NotCalled
    /\ DataUnused
    /\ GenUnused
    /\ LoadUnused
    /\ MakeUnused
    /\ LockUnused
    /\ ResolveUnused
    /\ HandleUnused

CallSerialize ==
    /\ serialized = NotCalled
    /\ serialized' = Ok(SerializeRoot(original))
    /\ UNCHANGED <<original, deserialized, dataVars, genVars, loadVars, makeVars,
                   lockVars, resolveVars,
                   handleVars>>

CallDeserialize ==
    /\ serialized # NotCalled
    /\ deserialized = NotCalled
    /\ deserialized' = DeserializeRoot(original.root, original.ty, serialized.val)
    /\ UNCHANGED <<original, serialized, dataVars, genVars, loadVars, makeVars,
                   lockVars, resolveVars,
                   handleVars>>

NextSerde == CallSerialize \/ CallDeserialize

SpecSerde == InitSerde /\ [][NextSerde]_vars

----------------------------------------------------------------------------
\* owned/registry.rs: the registry directory and OwnedRegistry::generate.
\* A directory is a set of entries [path, is_dir, content], the paths relative to
\* it; the content of a file is a sequence of chunks, one per write.

\* The TOML form of the serde types of the registry library and of std (RegistryConfigHash,
\* RegistryConfigKdf, PathBuf, Vec<PathBuf>): a table of their fields, a string,
\* an array.
TArray(items) ==
    [kind |-> "array", s |-> "", n |-> Len(items),
     fields |-> {KV(ToString(i), items[i]) : i \in 1..Len(items)}]
ArrayItems(x) == [i \in 1..x.n |-> ValueOf(x.fields, ToString(i))]

\* The serialisation of SplittingStrategy without rename_all.
SerializeSplittingStrategy_NoRename(strategy) ==
    TTable({KV(IF strategy = "Fill" THEN "Fill" ELSE "Manual", TTable({}))})

\* #[serde(rename_all = "snake_case")] enum SplittingStrategy { Fill {}, Manual {} }
SerializeSplittingStrategy(strategy) ==
    TTable({KV(IF strategy = "Fill" THEN "fill" ELSE "manual", TTable({}))})

DeserializeSplittingStrategy(x) ==
    IF x.kind # "table" \/ Cardinality(x.fields) # 1 THEN Err("invalid type")
    ELSE IF HasKey(x.fields, "fill") /\ ValueOf(x.fields, "fill").kind = "table"
    THEN Ok("Fill")
    ELSE IF HasKey(x.fields, "manual") /\ ValueOf(x.fields, "manual").kind = "table"
    THEN Ok("Manual")
    ELSE Err("unknown variant")

\* derive(Serialize) of OwnedRecordConfigParametersUnresolved: the fields that
\* are None are left out; encryption is a DoubleOption.
SerializeParameters(parameters) ==
    (IF IsSome(parameters.splitting_strategy)
     THEN {KV("splitting_strategy",
              SerializeSplittingStrategy(parameters.splitting_strategy.val))}
     ELSE {})
    \cup
    (IF IsSome(parameters.encryption)
     THEN {KV("encryption",
              IF parameters.encryption.val = ExplicitOption_None
              THEN SerializeExplicitOption(ExplicitOption_None)
              ELSE SerializeExplicitOption(ExplicitOption_Some(
                      VEncryption(parameters.encryption.val.val.algorithm,
                                  parameters.encryption.val.val.segment_padding_to_bytes))))}
     ELSE {})

\* derive(Deserialize) of OwnedRecordConfigParametersUnresolved
DeserializeParameters(fields) ==
    LET strategy == IF HasKey(fields, "splitting_strategy")
                    THEN DeserializeSplittingStrategy(ValueOf(fields, "splitting_strategy"))
                    ELSE Ok("")
        encryption == IF HasKey(fields, "encryption")
                      THEN DeserializeExplicitOption("Encryption",
                                                     ValueOf(fields, "encryption"))
                      ELSE Ok(ExplicitOption_None)
    IN  IF IsErr(strategy) THEN strategy
        ELSE IF IsErr(encryption) THEN encryption
        ELSE Ok([splitting_strategy |->
                    IF HasKey(fields, "splitting_strategy") THEN Some(strategy.val)
                    ELSE None,
                 encryption |->
                    IF ~HasKey(fields, "encryption") THEN None
                    ELSE IF encryption.val = ExplicitOption_None
                    THEN Some(ExplicitOption_None)
                    ELSE Some(ExplicitOption_Some(
                            [algorithm |-> encryption.val.val.alg,
                             segment_padding_to_bytes |-> encryption.val.val.pad]))])

CONFIG_KEYS ==
    {"hash", "kdf", "default_record_parameters", "root_record_path",
     "staging_directory_path", "revisions_directory_path",
     "published_directory_path", "signing_key_paths"}

\* toml::to_string_pretty(&self.config) of save_config
SerializeConfig(config) ==
    {KV("hash", TTable({KV("algorithm", TStr(config.hash.algorithm)),
                        KV("output_length_in_bytes",
                           TStr(config.hash.output_length_in_bytes))})),
     KV("kdf", TTable({KV("algorithm", TStr(config.kdf.algorithm)),
                       KV("root_predecessor_nonce",
                          TStr(config.kdf.root_predecessor_nonce))})),
     KV("default_record_parameters",
        TTable(SerializeParameters(config.default_record_parameters))),
     KV("root_record_path", TStr(config.root_record_path)),
     KV("staging_directory_path", TStr(config.staging_directory_path)),
     KV("revisions_directory_path", TStr(config.revisions_directory_path)),
     KV("published_directory_path", TStr(config.published_directory_path)),
     KV("signing_key_paths",
        TArray([i \in 1..Len(config.signing_key_paths) |->
                   TStr(config.signing_key_paths[i])]))}

\* toml::from_str::<OwnedRegistryConfig> of load, on a parsed document
DeserializeConfig(doc) ==
    IF ~(CONFIG_KEYS \subseteq Keys(doc)) THEN Err("missing field")
    ELSE LET parameters ==
                 DeserializeParameters(ValueOf(doc, "default_record_parameters").fields)
             hash == ValueOf(doc, "hash").fields
             kdf == ValueOf(doc, "kdf").fields
             paths == ArrayItems(ValueOf(doc, "signing_key_paths"))
         IN  IF IsErr(parameters) THEN parameters
             ELSE Ok([hash |-> [algorithm |-> ValueOf(hash, "algorithm").s,
                                output_length_in_bytes |->
                                    ValueOf(hash, "output_length_in_bytes").s],
                      kdf |-> [algorithm |-> ValueOf(kdf, "algorithm").s,
                               root_predecessor_nonce |->
                                    ValueOf(kdf, "root_predecessor_nonce").s],
                      default_record_parameters |-> parameters.val,
                      staging_directory_path |-> ValueOf(doc, "staging_directory_path").s,
                      revisions_directory_path |->
                            ValueOf(doc, "revisions_directory_path").s,
                      published_directory_path |->
                            ValueOf(doc, "published_directory_path").s,
                      root_record_path |-> ValueOf(doc, "root_record_path").s,
                      signing_key_paths |-> [i \in 1..Len(paths) |-> paths[i].s]])

\* What save_config writes: the serialised config.
ConfigChunk(config) == [kind |-> "config", body |-> [toml |-> SerializeConfig(config)]]
PemChunk(key) == [kind |-> "pem", body |-> [key |-> key]]
TextChunk(text) == [kind |-> "text", body |-> [text |-> text]]

FileEntry(path, content) == [path |-> path, is_dir |-> FALSE, content |-> content]
DirEntry(path) == [path |-> path, is_dir |-> TRUE, content |-> <<>>]

Exists(entries, path) == \E e \in entries : e.path = path
IsDirAt(entries, path) == \E e \in entries : e.path = path /\ e.is_dir
IsFileAt(entries, path) == \E e \in entries : e.path = path /\ ~e.is_dir
ContentAt(entries, path) == (CHOOSE e \in entries : e.path = path).content

\* tokio::fs::write and a write through a handle opened with truncate.
WriteFile(entries, path, content) ==
    {e \in entries : e.path # path} \cup {FileEntry(path, content)}

\* impl From<OwnedRecordConfigEncryption> for OwnedRecordConfigEncryptionUnresolved
EncryptionUnresolvedFrom(value) ==
    [algorithm |-> Some(value.algorithm),
     segment_padding_to_bytes |-> Some(value.segment_padding_to_bytes)]

\* impl From<Option<T>> for ExplicitOption<T>
ExplicitOptionFrom(value) ==
    IF value = None THEN ExplicitOption_None ELSE ExplicitOption_Some(value.val)

\* impl From<OwnedRecordConfigParameters> for OwnedRecordConfigParametersUnresolved
ParametersUnresolvedFrom(value) ==
    [splitting_strategy |-> Some(value.splitting_strategy),
     encryption |->
        Some(ExplicitOptionFrom(
            IF value.encryption = None THEN None
            ELSE Some(EncryptionUnresolvedFrom(value.encryption.val))))]

CONFIG_FILE == "registry.toml"
KEYS_DIRECTORY == "keys"
KEY_FILE == "keys/key_ed25519.pem"

\* The config of generate with a segment padding of 1000 bytes.
GeneratedConfig_Padding1000(nonce) ==
    [hash |-> [algorithm |-> "Argon2(default)", output_length_in_bytes |-> "default"],
     kdf |-> [algorithm |-> "Hkdf(default)", root_predecessor_nonce |-> nonce],
     default_record_parameters |->
        ParametersUnresolvedFrom(
            [splitting_strategy |-> "Fill",
             encryption |-> Some([algorithm |-> "Aes256Gcm",
                                  segment_padding_to_bytes |-> 1000])]),
     staging_directory_path |-> "target/staging",
     revisions_directory_path |-> "target/revisions",
     published_directory_path |-> "target/published",
     root_record_path |-> "root",
     signing_key_paths |-> <<KEY_FILE>>]

\* The OwnedRegistryConfig built by generate, with root_predecessor_nonce the
\* freshly drawn nonce.
GeneratedConfig(nonce) ==
    [hash |-> [algorithm |-> "Argon2(default)", output_length_in_bytes |-> "default"],
     kdf |-> [algorithm |-> "Hkdf(default)", root_predecessor_nonce |-> nonce],
     default_record_parameters |->
        ParametersUnresolvedFrom(
            [splitting_strategy |-> "Fill",
             encryption |-> Some([algorithm |-> "Aes256Gcm",
                                  segment_padding_to_bytes |-> 1024])]),
     staging_directory_path |-> "target/staging",
     revisions_directory_path |-> "target/revisions",
     published_directory_path |-> "target/published",
     root_record_path |-> "root",
     signing_key_paths |-> <<KEY_FILE>>]

\* The embedded source-directory template (assets/source-directory-template):
\* the root record directory with two successive records.
TemplateEntries ==
    <<DirEntry("root"), FileEntry("root/data.md", <<TextChunk("template")>>),
      DirEntry("root/a"), FileEntry("root/a/data.md", <<TextChunk("template")>>),
      DirEntry("root/b"), FileEntry("root/b/data.md", <<TextChunk("template")>>)>>

\* include_dir's Dir::extract: create_dir_all for each directory, fs::write for each
\* file, stopping at the first error.
RECURSIVE Extract(_, _)
Extract(template, entries) ==
    IF template = <<>> THEN Ok(entries)
    ELSE LET t == Head(template)
         IN  IF t.is_dir
             THEN IF IsFileAt(entries, t.path)
                  THEN [tag |-> "Err", err |-> "AlreadyExists", entries |-> entries]
                  ELSE Extract(Tail(template), entries \cup
                                (IF Exists(entries, t.path) THEN {} ELSE {t}))
             ELSE IF IsDirAt(entries, t.path)
                  THEN [tag |-> "Err", err |-> "IsADirectory", entries |-> entries]
                  ELSE Extract(Tail(template), WriteFile(entries, t.path, t.content))

GenError(kind, path) == [kind |-> kind, path |-> path]
GenOutcome(result, dir) == [result |-> result, dir |-> dir]

\* generate from the opening of registry.toml on (lines 224-303), on the entries
\* of the existing directory.
GenerateInDirectory(directory_path, entries, overwriteArg, nonce, key) ==
    IF IsDirAt(entries, CONFIG_FILE)
    THEN GenOutcome(Err(GenError("IsADirectory", CONFIG_FILE)), Dir(entries))
    ELSE IF ~overwriteArg /\ Exists(entries, CONFIG_FILE)
    THEN GenOutcome(Err(GenError("AlreadyExists", CONFIG_FILE)), Dir(entries))
    ELSE
    LET opened == WriteFile(entries, CONFIG_FILE, <<>>)
        extracted == Extract(TemplateEntries, opened)
    IN  IF IsErr(extracted)
        THEN GenOutcome(Err(GenError(extracted.err, "template")), Dir(extracted.entries))
        ELSE IF Exists(extracted.val, KEYS_DIRECTORY)
        THEN GenOutcome(Err(GenError("AlreadyExists", KEYS_DIRECTORY)), Dir(extracted.val))
        ELSE
        LET withKeys == extracted.val \cup {DirEntry(KEYS_DIRECTORY)}
            withPem == WriteFile(withKeys, KEY_FILE, <<PemChunk(key)>>)
            config == GeneratedConfig(nonce)
            saved == WriteFile(withPem, CONFIG_FILE, <<ConfigChunk(config)>>)
        IN  GenOutcome(Ok([directory_path |-> directory_path,
                           config |-> config,
                           signing_keys |-> <<key>>,
                           file_lock |-> "WriteLock"]),
                       Dir(saved))

\* generate with the test for a non-empty directory left out.
Generate_NoEmptinessCheck(directory_path, dir, overwriteArg, nonce, key) ==
    IF dir.kind = "file"
    THEN GenOutcome(Err(GenError("InvalidInput", directory_path)), dir)
    ELSE GenerateInDirectory(directory_path, dir.entries, overwriteArg, nonce, key)

\* OwnedRegistry::generate: the result and what is at directory_path afterwards.
Generate(directory_path, dir, overwriteArg, nonce, key) ==
    IF dir.kind = "dir" /\ ~overwriteArg /\ dir.entries # {}
    THEN GenOutcome(Err(GenError("RegistryAlreadyExists", directory_path)), dir)
    ELSE IF dir.kind = "file"
    THEN GenOutcome(Err(GenError("InvalidInput", directory_path)), dir)
    ELSE GenerateInDirectory(directory_path, dir.entries, overwriteArg, nonce, key)

\* toml parsing of the content of a file: the chunks written one after another.
\* Two serialised configs in a row define every key twice.
ParseToml(content) ==
    IF content = <<>> THEN Ok({})
    ELSE IF Len(content) = 1 /\ content[1].kind = "config" THEN Ok(content[1].body.toml)
    ELSE Err("TomlParse")

\* A lock rule under which a read lock held does not keep a write lock out.
LocksCompatible_OverReadLock(asked, held) ==
    held = "none" \/ held = "ReadLock"

\* Two locks on one file are compatible when both are read locks.
LocksCompatible(asked, held) ==
    held = "none" \/ (asked = "ReadLock" /\ held = "ReadLock")

\* The loop of load over config.signing_key_paths: each key file is read and
\* parsed with from_pkcs8_pem(..).unwrap().
RECURSIVE LoadSigningKeys(_, _)
LoadSigningKeys(entries, paths) ==
    IF paths = <<>> THEN Ok(<<>>)
    ELSE IF ~IsFileAt(entries, Head(paths))
    THEN Err(GenError("NotFound", Head(paths)))
    ELSE LET content == ContentAt(entries, Head(paths))
         IN  IF Len(content) # 1 \/ content[1].kind # "pem"
             THEN Panic("from_pkcs8_pem")
             ELSE LET rest == LoadSigningKeys(entries, Tail(paths))
                  IN  IF IsOk(rest) THEN Ok(<<content[1].body.key>> \o rest.val)
                      ELSE rest

\* OwnedRegistry::<L>::load.  The lock of the registry library is asked for on
\* registry.toml; held is the lock another handle holds on it.  An attempt that
\* meets an incompatible lock does not acquire it.
Load(directory_path, dir, lock, held) ==
    IF dir.kind # "dir" \/ ~IsFileAt(dir.entries, CONFIG_FILE)
    THEN Err(GenError("NotFound", CONFIG_FILE))
    ELSE IF ~LocksCompatible(lock, held)
    THEN Err(GenError("WouldBlock", CONFIG_FILE))
    ELSE LET doc == ParseToml(ContentAt(dir.entries, CONFIG_FILE))
         IN  IF IsErr(doc) THEN Err(GenError(doc.err, CONFIG_FILE))
             ELSE LET config == DeserializeConfig(doc.val)
                  IN  IF IsErr(config) THEN Err(GenError(config.err, CONFIG_FILE))
                      ELSE LET signing_keys ==
                                   LoadSigningKeys(dir.entries, config.val.signing_key_paths)
                           IN  IF ~IsOk(signing_keys) THEN signing_keys
                               ELSE Ok([directory_path |-> directory_path,
                                        config |-> config.val,
                                        signing_keys |-> signing_keys.val,
                                        file_lock |-> lock])

\* OwnedRegistry::<WriteLock>::lock_read: the write lock is dropped and a read
\* lock taken on registry.toml; the rest of the registry moves unchanged.
LockRead(registry) == Ok([registry EXCEPT !.file_lock = "ReadLock"])

\* impl PartialEq for OwnedRegistry<L>
RegistryEq(self, other) ==
    /\ self.directory_path = other.directory_path
    /\ self.config = other.config
    /\ self.signing_keys = other.signing_keys

----------------------------------------------------------------------------
\* SpecGenerate: generate called once on every small target directory, then
\* lock_read on the generated registry and load on the directory.

DIRECTORY_PATH == "registry_dir"
RootNonces == {"nonce1", "nonce2"}
SigningKeys == {"key1", "key2"}

\* What the target directory may hold before the call: an earlier registry.toml,
\* a keys directory with or without a key, the root record directory, another file.
ExistingEntries ==
    {E \in SUBSET {FileEntry(CONFIG_FILE, <<ConfigChunk(GeneratedConfig("nonce0"))>>),
                   DirEntry(KEYS_DIRECTORY),
                   FileEntry(KEY_FILE, <<PemChunk("key0")>>),
                   DirEntry("root"),
                   FileEntry("notes.txt", <<TextChunk("notes")>>)} :
        Exists(E, KEY_FILE) => Exists(E, KEYS_DIRECTORY)}

InitGenerate ==
    /\ regDir \in {MissingDir, NotADir} \cup {Dir(E) : E \in ExistingEntries}
    /\ regDirBefore = regDir
    /\ overwrite = FALSE
    /\ generated = NotCalled
    /\ downgraded = NotCalled
    /\ loadArgs = NotCalled
    /\ reloaded = NotCalled
    /\ DataUnused
    /\ SerdeUnused
    /\ LoadUnused
    /\ MakeUnused
    /\ LockUnused
    /\ ResolveUnused
    /\ HandleUnused

CallGenerate ==
    /\ generated = NotCalled
    /\ \E o \in BOOLEAN, nonce \in RootNonces, key \in SigningKeys :
        LET outcome == Generate(DIRECTORY_PATH, regDir, o, nonce, key)
        IN  /\ overwrite' = o
            /\ generated' = outcome.result
            /\ regDir' = outcome.dir
    /\ UNCHANGED <<regDirBefore, downgraded, loadArgs, reloaded,
                   dataVars, serdeVars, loadVars, makeVars,
                   lockVars, resolveVars,
                   handleVars>>

\* The lock on registry.toml held through the generated registry.
HeldLock ==
    IF downgraded # NotCalled THEN "ReadLock"
    ELSE IF IsOk(generated) THEN "WriteLock"
    ELSE "none"

\* lock_read on the generated registry.
CallLockRead ==
    /\ IsOk(generated)
    /\ downgraded = NotCalled
    /\ downgraded' = LockRead(generated.val)
    /\ UNCHANGED <<regDir, regDirBefore, overwrite, generated, loadArgs, reloaded,
                   dataVars, serdeVars, loadVars, makeVars,
                   lockVars, resolveVars,
                   handleVars>>

\* OwnedRegistry::<L>::load on the directory, for either lock type L.
CallLoad ==
    /\ generated # NotCalled
    /\ reloaded = NotCalled
    /\ \E lock \in {"ReadLock", "WriteLock"} :
          /\ loadArgs' = [lock |-> lock, held |-> HeldLock]
          /\ reloaded' = Load(DIRECTORY_PATH, regDir, lock, HeldLock)
    /\ UNCHANGED <<regDir, regDirBefore, overwrite, generated, downgraded,
                   dataVars, serdeVars, loadVars, makeVars,
                   lockVars, resolveVars,
                   handleVars>>

NextGenerate == CallGenerate \/ CallLockRead \/ CallLoad

SpecGenerate == InitGenerate /\ [][NextGenerate]_vars

----------------------------------------------------------------------------
\* SpecData: get_data_paths applied to every small record directory.

Name_data == <<"d", "a", "t", "a">>
Name_data_txt == <<"d", "a", "t", "a", ".", "t", "x", "t">>
Name_data_5 == <<"d", "a", "t", "a", ".", "5">>
Name_data_0_txt == <<"d", "a", "t", "a", ".", "0", ".", "t", "x", "t">>
Name_data_1_txt == <<"d", "a", "t", "a", ".", "1", ".", "t", "x", "t">>
Name_data_01_bin == <<"d", "a", "t", "a", ".", "0", "1", ".", "b", "i", "n">>
Name_data_2_txt == <<"d", "a", "t", "a", ".", "2", ".", "t", "x", "t">>
Name_data_x_txt == <<"d", "a", "t", "a", ".", "x", ".", "t", "x", "t">>
Name_datab_0_txt == <<"d", "a", "t", "a", "b", ".", "0", ".", "t", "x", "t">>
Name_data_3_d == <<"d", "a", "t", "a", ".", "3", ".", "d">>

File(name, content) == [name |-> name, is_file |-> TRUE, content |-> content]
Directory(name) == [name |-> name, is_file |-> FALSE, content |-> <<>>]

\* The directory entries SpecData draws from; data.3.d is a subdirectory.
EntryUniverse ==
    { File(Name_data, <<1>>), File(Name_data_txt, <<2>>), File(Name_data_5, <<3>>),
      File(Name_data_0_txt, <<1, 1>>), File(Name_data_1_txt, <<2>>),
      File(Name_data_01_bin, <<3>>), File(Name_data_2_txt, <<>>),
      File(Name_data_x_txt, <<1>>), File(Name_datab_0_txt, <<2>>),
      Directory(Name_data_3_d) }

MaxEntries == 3

InitData ==
    /\ dirEntries \in {S \in SUBSET EntryUniverse : Cardinality(S) <= MaxEntries}
    /\ dataPaths = NotCalled
    /\ splittingStrategy = "Fill"
    /\ readResult = NotCalled
    /\ SerdeUnused
    /\ GenUnused
    /\ LoadUnused
    /\ MakeUnused
    /\ LockUnused
    /\ ResolveUnused
    /\ HandleUnused

CallGetDataPaths ==
    /\ dataPaths = NotCalled
    /\ dataPaths' = GetDataPaths(dirEntries)
    /\ UNCHANGED <<dirEntries, splittingStrategy, readResult,
                   serdeVars, genVars, loadVars, makeVars,
                   lockVars, resolveVars,
                   handleVars>>

NextData == CallGetDataPaths

SpecData == InitData /\ [][NextData]_vars

----------------------------------------------------------------------------
\* owned/record.rs: record configs, the merge with the registry's defaults, and
\* OwnedRecord::load_from_directory.  A source directory is a function from the
\* path of a record directory (the names below the root record directory) to
\* [toml, entries]: its record.toml if any, and its files.

\* Option::or
OptionOr(a, b) == IF IsSome(a) THEN a ELSE b

\* impl Unresolved for OwnedRecordConfigEncryptionUnresolved: or
EncryptionOr(self, fallback) ==
    [algorithm |-> OptionOr(self.algorithm, fallback.algorithm),
     segment_padding_to_bytes |->
        OptionOr(self.segment_padding_to_bytes, fallback.segment_padding_to_bytes)]

\* impl Unresolved for OwnedRecordConfigEncryptionUnresolved: resolve
EncryptionResolve(self) ==
    IF IsSome(self.algorithm) /\ IsSome(self.segment_padding_to_bytes)
    THEN Ok([algorithm |-> self.algorithm.val,
             segment_padding_to_bytes |-> self.segment_padding_to_bytes.val])
    ELSE Err(self)

\* ParametersOr with the fallback's fields taking precedence.
ParametersOr_FallbackFirst(self, fallback) ==
    [splitting_strategy |-> OptionOr(fallback.splitting_strategy, self.splitting_strategy),
     encryption |-> OptionOr(fallback.encryption, self.encryption)]

\* impl Unresolved for OwnedRecordConfigParametersUnresolved: or.  The encryption
\* field is a DoubleOption and is merged with Option::or, as a whole.
ParametersOr(self, fallback) ==
    [splitting_strategy |-> OptionOr(self.splitting_strategy, fallback.splitting_strategy),
     encryption |-> OptionOr(self.encryption, fallback.encryption)]

\* ParametersResolve taking an unset encryption for no encryption.
ParametersResolve_UnsetIsNone(self) ==
    IF IsSome(self.splitting_strategy)
    THEN IF self.encryption = None \/ self.encryption.val = ExplicitOption_None
         THEN Ok([splitting_strategy |-> self.splitting_strategy.val,
                  encryption |-> None])
         ELSE LET resolved == EncryptionResolve(self.encryption.val.val)
              IN  IF IsOk(resolved)
                  THEN Ok([splitting_strategy |-> self.splitting_strategy.val,
                           encryption |-> Some(resolved.val)])
                  ELSE Err(self)
    ELSE Err(self)

\* impl Unresolved for OwnedRecordConfigParametersUnresolved: resolve
ParametersResolve(self) ==
    IF IsSome(self.splitting_strategy) /\ IsSome(self.encryption)
    THEN IF self.encryption.val = ExplicitOption_None
         THEN Ok([splitting_strategy |-> self.splitting_strategy.val,
                  encryption |-> None])
         ELSE LET resolved == EncryptionResolve(self.encryption.val.val)
              IN  IF IsOk(resolved)
                  THEN Ok([splitting_strategy |-> self.splitting_strategy.val,
                           encryption |-> Some(resolved.val)])
                  ELSE Err(self)
    ELSE Err(self)

\* OwnedRecordConfigUnresolved::try_resolve_with
TryResolveWith(self, parameters) ==
    LET resolved == ParametersResolve(ParametersOr(self.parameters, parameters))
    IN  IF IsOk(resolved)
        THEN Ok([name |-> self.name, metadata |-> self.metadata,
                 parameters |-> resolved.val])
        ELSE Err([name |-> self.name, metadata |-> self.metadata,
                  parameters |-> resolved.err])

\* OwnedRecordConfigParametersUnresolved::default()
ParametersDefault == [splitting_strategy |-> None, encryption |-> None]

ROOT_DIRECTORY_NAME == "root"

\* The final component of a record directory's path.
DirectoryFileName(path) == IF path = <<>> THEN ROOT_DIRECTORY_NAME ELSE path[Len(path)]

\* The file-system creation time of a record directory, as an RFC-3339 timestamp.
CreatedAtOf(path) == <<"created", path>>

\* OwnedRecord::load_config: record.toml parsed, or a config inferred from the
\* directory's name and creation time.
LoadConfig(dirs, path) ==
    IF IsSome(dirs[path].toml)
    THEN dirs[path].toml.val
    ELSE [name |-> DirectoryFileName(path),
          metadata |-> [created_at |-> Some(CreatedAtOf(path))],
          parameters |-> ParametersDefault]

LoadError(kind, parent, name) == [kind |-> kind, parent |-> parent, name |-> name]

\* The subdirectories of a record directory, in the order read_dir lists them.
SubdirectoriesInOrder(dirs, path, order) ==
    SelectSeq(order, LAMBDA n : Append(path, n) \in DOMAIN dirs)

RECURSIVE LoadFromDirectory(_, _, _, _)
RECURSIVE LoadSuccessive_NoDuplicateCheck(_, _, _, _, _, _, _)
RECURSIVE LoadSuccessive(_, _, _, _, _, _, _)

\* The read_dir loop without the test of successive_record_names.
LoadSuccessive_NoDuplicateCheck(dirs, defaults, order, path, rest, records, names) ==
    IF rest = <<>> THEN Ok(records)
    ELSE LET successive == LoadFromDirectory(dirs, defaults, order, Append(path, Head(rest)))
         IN  IF IsErr(successive) THEN successive
             ELSE LoadSuccessive(dirs, defaults, order, path, Tail(rest),
                                 Append(records, successive.val),
                                 names \cup {successive.val.config.name})

\* The read_dir loop of load_from_directory over the subdirectories still to come:
\* each is loaded, then its name is inserted into successive_record_names.
LoadSuccessive(dirs, defaults, order, path, rest, records, names) ==
    IF rest = <<>> THEN Ok(records)
    ELSE LET successive == LoadFromDirectory(dirs, defaults, order, Append(path, Head(rest)))
         IN  IF IsErr(successive) THEN successive
             ELSE IF successive.val.config.name \in names
             THEN Err(LoadError("DuplicateSuccessiveRecord", path,
                                successive.val.config.name))
             ELSE LoadSuccessive(dirs, defaults, order, path, Tail(rest),
                                 Append(records, successive.val),
                                 names \cup {successive.val.config.name})

\* OwnedRecord::load_from_directory
LoadFromDirectory(dirs, defaults, order, path) ==
    LET config == TryResolveWith(LoadConfig(dirs, path), defaults)
    IN  IF IsErr(config)
        THEN Err(LoadError("IncompleteRecordParameters", path, config.err.name))
        ELSE LET successive ==
                    LoadSuccessive(dirs, defaults, order, path,
                                   SubdirectoriesInOrder(dirs, path, order), <<>>, {})
             IN  IF IsErr(successive) THEN successive
                 ELSE Ok([directory_path |-> path,
                          config |-> config.val,
                          successive_records |-> successive.val])

\* OwnedRegistry::load_root_record
LoadRootRecord(dirs, config, order) ==
    LoadFromDirectory(dirs, config.default_record_parameters, order, <<>>)

----------------------------------------------------------------------------
\* The source directories the specifications draw from.

DirNames == {"a", "b"}

\* The record directories a source directory may hold below the root record.
AllDirs == {<<>>, <<"a">>, <<"b">>, <<"a", "a">>, <<"a", "b">>}

Shapes ==
    {S \in SUBSET AllDirs :
        /\ <<>> \in S
        /\ \A q \in S : q # <<>> => SubSeq(q, 1, Len(q) - 1) \in S}

\* The files of a record directory the specifications draw from.
DataTxt(content) == {File(Name_data_txt, content)}

\* A record.toml with a name, no created_at, and the given parameters.
Toml(name, parameters) ==
    Some([name |-> name, metadata |-> [created_at |-> None], parameters |-> parameters])

\* Parameters that set only the algorithm of the encryption.
ParametersAlgorithmOnly ==
    [splitting_strategy |-> None,
     encryption |-> Some(ExplicitOption_Some(
                        [algorithm |-> Some("Aes256Gcm"),
                         segment_padding_to_bytes |-> None]))]

\* The config of the source registry (registry.toml as generated).
InputConfig == GeneratedConfig("nonce1")

----------------------------------------------------------------------------
\* SpecLoad: load_root_record on every small source directory.

LoadTomls ==
    {None} \cup {Toml(n, ps) : n \in DirNames, ps \in {ParametersDefault, ParametersAlgorithmOnly}}

InitLoad ==
    /\ \E S \in Shapes :
          loadDirs \in [S -> [toml : LoadTomls, entries : {DataTxt(<<1>>)}]]
    /\ loadOrder \in Perms(DirNames)
    /\ loaded = NotCalled
    /\ DataUnused
    /\ SerdeUnused
    /\ GenUnused
    /\ MakeUnused
    /\ LockUnused
    /\ ResolveUnused
    /\ HandleUnused

CallLoadRootRecord ==
    /\ loaded = NotCalled
    /\ loaded' = LoadRootRecord(loadDirs, InputConfig, loadOrder)
    /\ UNCHANGED <<loadDirs, loadOrder, dataVars, serdeVars, genVars, makeVars,
                   lockVars, resolveVars,
                   handleVars>>

NextLoad == CallLoadRootRecord

SpecLoad == InitLoad /\ [][NextLoad]_vars

----------------------------------------------------------------------------
\* The recursive emitter: OwnedRecord::read, save_record_versioned and
\* make_recursive, writing into the target registry of the registry library.
\* The target registry is the set of the record versions stored in the staging
\* directory, each [hashed_key, version, record].

RECURSIVE Concat(_)
Concat(seqs) == IF seqs = <<>> THEN <<>> ELSE Head(seqs) \o Concat(Tail(seqs))

\* The content of the file of the given name among the entries of a directory.
ContentOf(entries, name) ==
    (CHOOSE e \in entries : e.is_file /\ e.name = name).content

ButLast(seq) == SubSeq(seq, 1, Len(seq) - 1)

\* OwnedRecord::read that opens the first data file only.
ReadRecord_FirstFileOnly(dirs, record) ==
    LET data_paths == GetDataPaths(dirs[record.directory_path].entries)
    IN  IF IsErr(data_paths) THEN data_paths
        ELSE IF data_paths.val = <<>> THEN Ok(None)
        ELSE Ok(Some([read |-> ContentOf(dirs[record.directory_path].entries,
                                         data_paths.val[1]),
                      split_at |->
                         IF record.config.parameters.splitting_strategy = "Fill"
                         THEN None
                         ELSE Some(<<>>)]))

\* OwnedRecord::read: Err from get_data_paths, Ok(None) when there is no data
\* file, else the data files chained in order with split_at, the lengths of the
\* files but the last under the Manual strategy.
ReadRecord(dirs, record) ==
    LET data_paths == GetDataPaths(dirs[record.directory_path].entries)
    IN  IF IsErr(data_paths) THEN data_paths
        ELSE IF data_paths.val = <<>> THEN Ok(None)
        ELSE LET contents == [i \in 1..Len(data_paths.val) |->
                                ContentOf(dirs[record.directory_path].entries,
                                          data_paths.val[i])]
             IN  Ok(Some([read |-> Concat(contents),
                          split_at |->
                             IF record.config.parameters.splitting_strategy = "Fill"
                             THEN None
                             ELSE Some(ButLast([i \in 1..Len(contents) |->
                                                  Len(contents[i])]))]))

\* SpecRead: OwnedRecord::read on one record directory, under each splitting
\* strategy.
InitRead ==
    /\ dirEntries \in {S \in SUBSET EntryUniverse : Cardinality(S) <= MaxEntries}
    /\ splittingStrategy \in {"Fill", "Manual"}
    /\ dataPaths = NotCalled
    /\ readResult = NotCalled
    /\ SerdeUnused
    /\ GenUnused
    /\ LoadUnused
    /\ MakeUnused
    /\ LockUnused
    /\ ResolveUnused
    /\ HandleUnused

CallRead ==
    /\ readResult = NotCalled
    /\ readResult' =
          ReadRecord(<<>> :> [entries |-> dirEntries],
                     [directory_path |-> <<>>,
                      config |-> [parameters |->
                                    [splitting_strategy |-> splittingStrategy]]])
    /\ UNCHANGED <<dirEntries, dataPaths, splittingStrategy,
                   serdeVars, genVars, loadVars, makeVars, lockVars, resolveVars,
                   handleVars>>

NextRead == CallRead

SpecRead == InitRead /\ [][NextRead]_vars

\* A hash of the record name alone.
HashKey_NameOnly(key) == <<"hash", key.record_name>>

\* RecordKey::hash: the hashed key of a record key; distinct keys give distinct
\* hashed keys.
HashKey(key) == <<"hash">> \o key.predecessor_nonce \o <<key.record_name>>

\* HashedRecordKey::derive_succession_nonce
DeriveSuccessionNonce(hashed_key) == <<"succ">> \o hashed_key

\* KdfParams::get_root_record_predecessor_nonce
RootPredecessorNonce(config) == <<config.kdf.root_predecessor_nonce>>

\* The versions stored in the registry under a hashed key.
StoredVersions(registry, hashed_key) ==
    {e.version : e \in {f \in registry : f.hashed_key = hashed_key}}

\* Registry::list_record_versions with max_version_lookahead = 0: the versions
\* found by probing 0, 1, 2, ... up to the first version that is not stored.
ListRecordVersions(registry, hashed_key) ==
    LET stored == StoredVersions(registry, hashed_key)
        count == CHOOSE n \in 0..Cardinality(stored) :
                    /\ \A v \in 0..(n - 1) : v \in stored
                    /\ n \notin stored
    IN  [i \in 1..count |-> i - 1]

\* Record::read_version_with_nonce
ReadVersion(registry, hashed_key, version) ==
    IF version \in StoredVersions(registry, hashed_key)
    THEN Some((CHOOSE e \in registry :
                  e.hashed_key = hashed_key /\ e.version = version).record)
    ELSE None

\* Registry::save_record: the record is written as the given version of the key.
SaveRecord(registry, hashed_key, record, version) ==
    {e \in registry : ~(e.hashed_key = hashed_key /\ e.version = version)}
        \cup {[hashed_key |-> hashed_key, version |-> version, record |-> record]}

ZeroStatistics ==
    [records_created |-> 0, records_updated |-> 0, records_unchanged |-> 0]

Saved(registry, statistics, decision, version) ==
    [registry |-> registry, stats |-> statistics,
     decision |-> decision, version |-> version]

\* save_record_versioned that saves a new version without comparing the output
\* record with the latest version.
SaveRecordVersioned_NoComparison(registry, statistics, output_record, hashed_key) ==
    LET existing_versions == ListRecordVersions(registry, hashed_key)
    IN  IF existing_versions # <<>>
        THEN LET latest == existing_versions[Len(existing_versions)]
             IN  Saved(SaveRecord(registry, hashed_key, output_record, latest + 1),
                       [statistics EXCEPT !.records_updated = @ + 1],
                       "updated", latest + 1)
        ELSE Saved(SaveRecord(registry, hashed_key, output_record, 0),
                   [statistics EXCEPT !.records_created = @ + 1],
                   "created", 0)

\* save_record_versioned that counts every saved record as created.
SaveRecordVersioned_CountsCreated(registry, statistics, output_record, hashed_key) ==
    LET existing_versions == ListRecordVersions(registry, hashed_key)
    IN  IF existing_versions # <<>>
        THEN LET latest == existing_versions[Len(existing_versions)]
             IN  IF ReadVersion(registry, hashed_key, latest) = Some(output_record)
                 THEN Saved(registry,
                            [statistics EXCEPT !.records_unchanged = @ + 1],
                            "unchanged", latest)
                 ELSE Saved(SaveRecord(registry, hashed_key, output_record, latest + 1),
                            [statistics EXCEPT !.records_created = @ + 1],
                            "updated", latest + 1)
        ELSE Saved(SaveRecord(registry, hashed_key, output_record, 0),
                   [statistics EXCEPT !.records_created = @ + 1],
                   "created", 0)

\* save_record_versioned that writes a changed record over the latest version.
SaveRecordVersioned_OverLatest(registry, statistics, output_record, hashed_key) ==
    LET existing_versions == ListRecordVersions(registry, hashed_key)
    IN  IF existing_versions # <<>>
        THEN LET latest == existing_versions[Len(existing_versions)]
             IN  IF ReadVersion(registry, hashed_key, latest) = Some(output_record)
                 THEN Saved(registry,
                            [statistics EXCEPT !.records_unchanged = @ + 1],
                            "unchanged", latest)
                 ELSE Saved(SaveRecord(registry, hashed_key, output_record, latest),
                            [statistics EXCEPT !.records_updated = @ + 1],
                            "updated", latest)
        ELSE Saved(SaveRecord(registry, hashed_key, output_record, 0),
                   [statistics EXCEPT !.records_created = @ + 1],
                   "created", 0)

\* save_record_versioned: the registry and the statistics after the call, with
\* the branch taken and the version it read or wrote.
SaveRecordVersioned(registry, statistics, output_record, hashed_key) ==
    LET existing_versions == ListRecordVersions(registry, hashed_key)
    IN  IF existing_versions # <<>>
        THEN LET latest == existing_versions[Len(existing_versions)]
             IN  IF ReadVersion(registry, hashed_key, latest) = Some(output_record)
                 THEN Saved(registry,
                            [statistics EXCEPT !.records_unchanged = @ + 1],
                            "unchanged", latest)
                 ELSE Saved(SaveRecord(registry, hashed_key, output_record, latest + 1),
                            [statistics EXCEPT !.records_updated = @ + 1],
                            "updated", latest + 1)
        ELSE Saved(SaveRecord(registry, hashed_key, output_record, 0),
                   [statistics EXCEPT !.records_created = @ + 1],
                   "created", 0)

\* The Record make_recursive builds from a source record and its data.
OutputRecord(input_record, data) ==
    [metadata |-> [created_at |-> input_record.config.metadata.created_at],
     data |-> data]

\* The call of make_recursive for a record: the record, the predecessor nonce
\* and the path to its parent record.
Frame(input_record, predecessor_nonce, path_to_parent_record) ==
    [input_record |-> input_record,
     predecessor_nonce |-> predecessor_nonce,
     path_to_parent_record |-> path_to_parent_record]

\* SuccessiveFrames that hands the root predecessor nonce to every record.
SuccessiveFrames_RootNonce(input_record, succession_nonce, record_path) ==
    [i \in 1..Len(input_record.successive_records) |->
        Frame(input_record.successive_records[i],
              RootPredecessorNonce(InputConfig), record_path)]

\* SuccessiveFrames that derives the nonce of a successive record from its
\* position among the successive records as well.
SuccessiveFrames_PositionNonce(input_record, succession_nonce, record_path) ==
    [i \in 1..Len(input_record.successive_records) |->
        Frame(input_record.successive_records[i],
              Append(succession_nonce, i), record_path)]

\* The calls of make_recursive for the successive records of a record, in the
\* order of successive_records.
SuccessiveFrames(input_record, succession_nonce, record_path) ==
    [i \in 1..Len(input_record.successive_records) |->
        Frame(input_record.successive_records[i], succession_nonce, record_path)]

\* A report that takes the target registry for unchanged when no record was
\* created.
Report_CreatedOnly(statistics) ==
    [updated |-> ~(statistics.records_created = 0),
     checked |-> statistics.records_created + statistics.records_updated
                    + statistics.records_unchanged]

\* Command::Make after make_recursive has returned Ok: the message reports the
\* target registry as updated or as unchanged, and the records checked in total.
Report(statistics) ==
    [updated |-> ~(statistics.records_created = 0 /\ statistics.records_updated = 0),
     checked |-> statistics.records_created + statistics.records_updated
                    + statistics.records_unchanged]

\* make_recursive as the recursive function it is: the source directory, the
\* target registry, the statistics and the outcome after the call for a frame,
\* and after the calls for a sequence of frames in turn.  An outcome that is
\* not Ok ends every call that follows.
RECURSIVE MakeRecursive(_, _), MakeSuccessive(_, _)
MakeRecursive(frame, state) ==
    LET input_record == frame.input_record
        read == ReadRecord(state.src, input_record)
    IN  IF ~IsOk(state.outcome) THEN state
        ELSE IF IsErr(read) THEN [state EXCEPT !.outcome = Err([kind |-> read.err])]
        ELSE IF read.val = None
        THEN [state EXCEPT !.outcome = Panic("Data not found.")]
        ELSE LET output_record == OutputRecord(input_record, read.val.val.read)
                 key == [record_name |-> input_record.config.name,
                         predecessor_nonce |-> frame.predecessor_nonce]
                 hashed_key == HashKey(key)
                 record_path == Append(frame.path_to_parent_record, key.record_name)
                 saved == SaveRecordVersioned(state.registry, state.stats,
                                              output_record, hashed_key)
                 succession_nonce == DeriveSuccessionNonce(hashed_key)
             IN  MakeSuccessive(
                    SuccessiveFrames(input_record, succession_nonce, record_path),
                    [state EXCEPT !.registry = saved.registry,
                                  !.stats = saved.stats,
                                  !.outcome = Ok(saved.stats)])

MakeSuccessive(frames, state) ==
    IF frames = <<>> THEN state
    ELSE MakeSuccessive(Tail(frames), MakeRecursive(Head(frames), state))

\* Descend that defers the calls for the successive records until the calls
\* pending at the callers have run.
Descend_BreadthFirst(successive, pending) == pending \o successive

\* The for loop of make_recursive over successive_records: the calls for the
\* successive records of the record just emitted run, each to its end, before
\* the calls still pending at the callers.
Descend(successive, pending) == successive \o pending

----------------------------------------------------------------------------
\* Spec: Command::Make run again and again on a source directory whose data
\* files are edited between the runs.  Registry::create belongs to the registry
\* library: on a staging directory that exists it either fails or opens the
\* registry with the record versions stored there.

MaxRuns == 2
MaxEdits == 1

\* record.toml of a record directory: none, or for a directory named a one that
\* names the record b.
MakeTomls(path) ==
    IF path # <<>> /\ DirectoryFileName(path) = "a"
    THEN {None, Toml("b", ParametersDefault)}
    ELSE {None}

\* The data files an edit leaves in a record directory.
DataChoices ==
    {DataTxt(<<1>>), {},
     {File(Name_data_0_txt, <<1>>), File(Name_data_1_txt, <<2>>)},
     {File(Name_data_0_txt, <<1>>), File(Name_data_2_txt, <<2>>)}}

\* The record versions stored in the staging directory, none when it is absent.
StoredIn(registry) == IF IsSome(registry) THEN registry.val ELSE {}

InitMake ==
    /\ \E S \in Shapes :
          srcDir \in {f \in [S -> [toml : {None, Toml("b", ParametersDefault)},
                                     entries : {DataTxt(<<1>>)}]] :
                        \A path \in S : f[path].toml \in MakeTomls(path)}
    /\ target = None
    /\ pc = "idle"
    /\ stack = <<>>
    /\ stats = NotCalled
    /\ run = NotCalled
    /\ lastRun = NotCalled
    /\ prevRun = NotCalled
    /\ runs = 0
    /\ edits = 0
    /\ DataUnused
    /\ SerdeUnused
    /\ GenUnused
    /\ LoadUnused
    /\ LockUnused
    /\ ResolveUnused
    /\ HandleUnused

\* EndRun that restores the staging directory as it was before a run that
\* has not succeeded.
EndRun_RollsBack(started, registry, outcome, stopped_at) ==
    /\ lastRun' = [src |-> started.src, before |-> started.before,
                   emitted |-> started.emitted,
                   after |-> IF IsOk(outcome) THEN StoredIn(registry)
                             ELSE started.before,
                   outcome |-> outcome,
                   stopped_at |-> stopped_at]
    /\ prevRun' = lastRun
    /\ target' = IF IsOk(outcome) THEN registry ELSE Some(started.before)
    /\ pc' = "idle"
    /\ stack' = <<>>
    /\ stats' = NotCalled
    /\ run' = NotCalled

\* The run ends with the given outcome, at the record directory the emitter was
\* at if any, and leaves the given staging directory.
EndRun(started, registry, outcome, stopped_at) ==
    /\ lastRun' = [src |-> started.src, before |-> started.before,
                   emitted |-> started.emitted,
                   after |-> StoredIn(registry), outcome |-> outcome,
                   stopped_at |-> stopped_at]
    /\ prevRun' = lastRun
    /\ target' = registry
    /\ pc' = "idle"
    /\ stack' = <<>>
    /\ stats' = NotCalled
    /\ run' = NotCalled

Started == [src |-> srcDir, before |-> StoredIn(target), emitted |-> <<>>]

\* Command::Make: load_root_record fails.
MakeLoadFails ==
    /\ pc = "idle"
    /\ runs < MaxRuns
    /\ \E order \in Perms(DirNames) :
          LET root == LoadRootRecord(srcDir, InputConfig, order)
          IN  /\ IsErr(root)
              /\ EndRun(Started, target, root, None)
    /\ runs' = runs + 1
    /\ UNCHANGED <<srcDir, edits, dataVars, serdeVars, genVars, loadVars,
                   lockVars, resolveVars,
                   handleVars>>

\* Command::Make: the root record is loaded and Registry::create fails.
MakeCreateFails ==
    /\ pc = "idle"
    /\ runs < MaxRuns
    /\ IsSome(target)
    /\ \E order \in Perms(DirNames) :
          IsOk(LoadRootRecord(srcDir, InputConfig, order))
    /\ EndRun(Started, target, Err([kind |-> "RegistryCreate"]), None)
    /\ runs' = runs + 1
    /\ UNCHANGED <<srcDir, edits, dataVars, serdeVars, genVars, loadVars,
                   lockVars, resolveVars,
                   handleVars>>

\* Command::Make up to the call of make_recursive for the root record.
MakeStart ==
    /\ pc = "idle"
    /\ runs < MaxRuns
    /\ \E order \in Perms(DirNames) :
          LET root == LoadRootRecord(srcDir, InputConfig, order)
          IN  /\ IsOk(root)
              /\ stack' = <<Frame(root.val, RootPredecessorNonce(InputConfig), <<>>)>>
    /\ target' = Some(StoredIn(target))
    /\ stats' = ZeroStatistics
    /\ run' = Started
    /\ pc' = "making"
    /\ runs' = runs + 1
    /\ UNCHANGED <<srcDir, lastRun, prevRun, edits,
                   dataVars, serdeVars, genVars, loadVars,
                   lockVars, resolveVars,
                   handleVars>>

\* make_recursive for the record at the head of the stack: the record is read,
\* hashed and saved, and the calls for its successive records come next.
EmitRecord ==
    /\ pc = "making"
    /\ stack # <<>>
    /\ LET frame == Head(stack)
           input_record == frame.input_record
           read == ReadRecord(srcDir, input_record)
       IN  /\ IsOk(read)
           /\ IsSome(read.val)
           /\ LET output_record == OutputRecord(input_record, read.val.val.read)
                  key == [record_name |-> input_record.config.name,
                          predecessor_nonce |-> frame.predecessor_nonce]
                  hashed_key == HashKey(key)
                  record_path == Append(frame.path_to_parent_record, key.record_name)
                  saved == SaveRecordVersioned(target.val, stats, output_record,
                                               hashed_key)
                  succession_nonce == DeriveSuccessionNonce(hashed_key)
              IN  /\ target' = Some(saved.registry)
                  /\ stats' = saved.stats
                  /\ run' = [run EXCEPT !.emitted =
                               Append(@, [record_path |-> record_path,
                                          directory_path |-> input_record.directory_path,
                                          hashed_key |-> hashed_key,
                                          record |-> output_record,
                                          decision |-> saved.decision,
                                          version |-> saved.version])]
                  /\ stack' = Descend(SuccessiveFrames(input_record, succession_nonce,
                                                       record_path),
                                      Tail(stack))
    /\ UNCHANGED <<srcDir, pc, lastRun, prevRun, runs, edits,
                   dataVars, serdeVars, genVars, loadVars,
                   lockVars, resolveVars,
                   handleVars>>

\* make_recursive: OwnedRecord::read returns an error, which `?` returns from
\* every call of make_recursive.
EmitReadFails ==
    /\ pc = "making"
    /\ stack # <<>>
    /\ LET read == ReadRecord(srcDir, Head(stack).input_record)
       IN  /\ IsErr(read)
           /\ EndRun(run, target, Err([kind |-> read.err]),
                     Some(Head(stack).input_record.directory_path))
    /\ UNCHANGED <<srcDir, runs, edits, dataVars, serdeVars, genVars, loadVars,
                   lockVars, resolveVars,
                   handleVars>>

\* make_recursive: OwnedRecord::read returns Ok(None) and expect panics.
EmitDataNotFound ==
    /\ pc = "making"
    /\ stack # <<>>
    /\ ReadRecord(srcDir, Head(stack).input_record) = Ok(None)
    /\ EndRun(run, target, Panic("Data not found."),
              Some(Head(stack).input_record.directory_path))
    /\ UNCHANGED <<srcDir, runs, edits, dataVars, serdeVars, genVars, loadVars,
                   lockVars, resolveVars,
                   handleVars>>

\* The calls into the registry library that make_recursive makes for a record
\* after its data is read, each of which may return an error: before anything
\* is saved (RecordKey::hash, list_record_versions, read_version_with_nonce,
\* save_record) and after the record is saved (derive_succession_nonce).
StepsBeforeSave == {"list_record_versions"}
StepsAfterSave == {"derive_succession_nonce"}

\* make_recursive: a call into the registry library made before the record is
\* saved returns an error, which `?` returns from every call of make_recursive.
EmitFailsBeforeSave ==
    /\ pc = "making"
    /\ stack # <<>>
    /\ LET read == ReadRecord(srcDir, Head(stack).input_record)
       IN  IsOk(read) /\ IsSome(read.val)
    /\ \E step \in StepsBeforeSave :
          EndRun(run, target, Err([kind |-> step]),
                 Some(Head(stack).input_record.directory_path))
    /\ UNCHANGED <<srcDir, runs, edits, dataVars, serdeVars, genVars, loadVars,
                   lockVars, resolveVars,
                   handleVars>>

\* make_recursive: the record emitted last is saved and derive_succession_nonce
\* for it returns an error, which `?` returns from every call of make_recursive:
\* none of the calls for its successive records, and none of the calls pending
\* at the callers, is made.
EmitFailsAfterSave ==
    /\ pc = "making"
    /\ run.emitted # <<>>
    /\ \E step \in StepsAfterSave :
          EndRun(run, target, Err([kind |-> step]),
                 Some(run.emitted[Len(run.emitted)].directory_path))
    /\ UNCHANGED <<srcDir, runs, edits, dataVars, serdeVars, genVars, loadVars,
                   lockVars, resolveVars,
                   handleVars>>

\* make_recursive has returned Ok(()) for the root record.
MakeFinish ==
    /\ pc = "making"
    /\ stack = <<>>
    /\ EndRun(run, target, Ok(stats), None)
    /\ UNCHANGED <<srcDir, runs, edits, dataVars, serdeVars, genVars, loadVars,
                   lockVars, resolveVars,
                   handleVars>>

\* The user replaces the data files of one record directory between two runs.
ModifyData ==
    /\ pc = "idle"
    /\ edits < MaxEdits
    /\ \E path \in DOMAIN srcDir, entries \in DataChoices :
          /\ entries # srcDir[path].entries
          /\ srcDir' = [srcDir EXCEPT ![path].entries = entries]
    /\ edits' = edits + 1
    /\ UNCHANGED <<target, pc, stack, stats, run, lastRun, prevRun, runs,
                   dataVars, serdeVars, genVars, loadVars,
                   lockVars, resolveVars,
                   handleVars>>

Next ==
    \/ MakeLoadFails
    \/ MakeCreateFails
    \/ MakeStart
    \/ EmitRecord
    \/ EmitReadFails
    \/ EmitDataNotFound
    \/ MakeFinish
    \/ ModifyData

Spec == InitMake /\ [][Next]_vars

\* SpecFail: one run of Command::Make on every small source directory in which
\* every call into the registry library may return an error.  The run is the
\* last one the bounds of Spec allow, and no edit follows it.
InitFail ==
    /\ \E S \in Shapes : srcDir \in [S -> [toml : {None}, entries : DataChoices]]
    /\ target = None
    /\ pc = "idle"
    /\ stack = <<>>
    /\ stats = NotCalled
    /\ run = NotCalled
    /\ lastRun = NotCalled
    /\ prevRun = NotCalled
    /\ runs = MaxRuns - 1
    /\ edits = MaxEdits
    /\ DataUnused
    /\ SerdeUnused
    /\ GenUnused
    /\ LoadUnused
    /\ LockUnused
    /\ ResolveUnused
    /\ HandleUnused

NextFail ==
    \/ MakeStart
    \/ EmitRecord
    \/ EmitReadFails
    \/ EmitDataNotFound
    \/ EmitFailsBeforeSave
    \/ EmitFailsAfterSave
    \/ MakeFinish

SpecFail == InitFail /\ [][NextFail]_vars

----------------------------------------------------------------------------
\* SpecLock: several invocations on one source directory.  A make invocation
\* loads the registry for a WriteLock and holds it until Command::process
\* returns and the registry is dropped; a read-only load holds a ReadLock until
\* its registry is dropped.  The lock is the advisory lock of the registry
\* library on registry.toml: an attempt that meets an incompatible lock does not
\* acquire it.

Procs == {"p1", "p2", "p3"}

\* The lock type of the load of make without the write lock.
MakeLockType_Read == "ReadLock"

\* OwnedRegistry::<WriteLock>::load of Command::Make
MakeLockType == "WriteLock"

\* The lock asked for is compatible with the locks the other invocations hold.
CanLock(p, asked) ==
    \A q \in Procs \ {p} : LocksCompatible(asked, lockHeld[q])

InitLock ==
    /\ lockHeld = [p \in Procs |-> "none"]
    /\ procPc = [p \in Procs |-> "idle"]
    /\ DataUnused
    /\ SerdeUnused
    /\ GenUnused
    /\ LoadUnused
    /\ MakeUnused
    /\ ResolveUnused
    /\ HandleUnused

LockUnchanged ==
    UNCHANGED <<dataVars, serdeVars, genVars, loadVars, makeVars, resolveVars,
                   handleVars>>

\* Command::Make: load acquires the lock and the build begins.
MakeAcquires(p) ==
    /\ procPc[p] = "idle"
    /\ CanLock(p, MakeLockType)
    /\ lockHeld' = [lockHeld EXCEPT ![p] = MakeLockType]
    /\ procPc' = [procPc EXCEPT ![p] = "making"]
    /\ LockUnchanged

\* Command::Make: load does not acquire the lock and returns its error.
MakeRefused(p) ==
    /\ procPc[p] = "idle"
    /\ ~CanLock(p, MakeLockType)
    /\ procPc' = [procPc EXCEPT ![p] = "make_refused"]
    /\ UNCHANGED lockHeld
    /\ LockUnchanged

\* Command::Make returns: the registry is dropped and with it the lock.
MakeReturns(p) ==
    /\ procPc[p] = "making"
    /\ lockHeld' = [lockHeld EXCEPT ![p] = "none"]
    /\ procPc' = [procPc EXCEPT ![p] = "done"]
    /\ LockUnchanged

\* OwnedRegistry::<ReadLock>::load acquires the lock.
ReaderAcquires(p) ==
    /\ procPc[p] = "idle"
    /\ CanLock(p, "ReadLock")
    /\ lockHeld' = [lockHeld EXCEPT ![p] = "ReadLock"]
    /\ procPc' = [procPc EXCEPT ![p] = "reading"]
    /\ LockUnchanged

\* OwnedRegistry::<ReadLock>::load does not acquire the lock.
ReaderRefused(p) ==
    /\ procPc[p] = "idle"
    /\ ~CanLock(p, "ReadLock")
    /\ procPc' = [procPc EXCEPT ![p] = "read_refused"]
    /\ UNCHANGED lockHeld
    /\ LockUnchanged

\* The read-locked registry is dropped.
ReaderDrops(p) ==
    /\ procPc[p] = "reading"
    /\ lockHeld' = [lockHeld EXCEPT ![p] = "none"]
    /\ procPc' = [procPc EXCEPT ![p] = "done"]
    /\ LockUnchanged

\* The invocation is over and another one starts.
Restart(p) ==
    /\ procPc[p] \in {"done", "make_refused", "read_refused"}
    /\ procPc' = [procPc EXCEPT ![p] = "idle"]
    /\ UNCHANGED lockHeld
    /\ LockUnchanged

NextLock ==
    \E p \in Procs :
        \/ MakeAcquires(p)
        \/ MakeRefused(p)
        \/ MakeReturns(p)
        \/ ReaderAcquires(p)
        \/ ReaderRefused(p)
        \/ ReaderDrops(p)
        \/ Restart(p)

SpecLock == InitLock /\ [][NextLock]_vars

----------------------------------------------------------------------------
\* SpecResolve: load_from_directory on a record directory without successive
\* records, for every small record.toml and every small default_record_parameters.

EncryptionAlgorithms == {"Aes256Gcm"}
SegmentPaddings == {1024, 2048}

\* OwnedRecordConfigEncryptionUnresolved
EncryptionSpace ==
    [algorithm : {None} \cup {Some(a) : a \in EncryptionAlgorithms},
     segment_padding_to_bytes : {None} \cup {Some(n) : n \in SegmentPaddings}]

\* OwnedRecordConfigParametersUnresolved
ParameterSpace ==
    [splitting_strategy : {None, Some("Fill"), Some("Manual")},
     encryption : {None, Some(ExplicitOption_None)}
                  \cup {Some(ExplicitOption_Some(e)) : e \in EncryptionSpace}]

InitResolve ==
    /\ recordParameters \in ParameterSpace
    /\ defaultParameters \in ParameterSpace
    /\ resolvedConfig = NotCalled
    /\ DataUnused
    /\ SerdeUnused
    /\ GenUnused
    /\ LoadUnused
    /\ MakeUnused
    /\ LockUnused
    /\ HandleUnused

\* load_from_directory on the directory r, whose record.toml holds recordParameters,
\* under a registry config whose default_record_parameters are defaultParameters.
CallLoadFromDirectory ==
    /\ resolvedConfig = NotCalled
    /\ resolvedConfig' =
          LoadFromDirectory(<<>> :> [toml |-> Toml("r", recordParameters),
                                     entries |-> DataTxt(<<1>>)],
                            defaultParameters, <<"a", "b">>, <<>>)
    /\ UNCHANGED <<recordParameters, defaultParameters,
                   dataVars, serdeVars, genVars, loadVars, makeVars, lockVars,
                   handleVars>>

NextResolve == CallLoadFromDirectory

SpecResolve == InitResolve /\ [][NextResolve]_vars

----------------------------------------------------------------------------
\* SpecHandle: two processes that load, convert, change, save and drop
\* OwnedRegistry handles on the registry.toml of one generated registry.
\* registry.toml is the sequence of the chunks written to it; the offset of a
\* handle's file counts the chunks before its position.

HandleProcs == {"p1", "p2"}
HandleConfigs == {GeneratedConfig("nonce1"), GeneratedConfig("nonce2")}
MaxFileChunks == 2

\* No OwnedRegistry held.  A handle is its lock, its config, the position of
\* its file, and for the record: the call that opened the file, the last call
\* on the handle, whether registry.toml held exactly the handle's config when
\* the lock was released for a conversion, and whether another process wrote
\* to registry.toml before the lock was taken again.
NoHandle ==
    [lock |-> "none", phase |-> "none", config |-> None, offset |-> 0,
     opened |-> "none", last |-> "none", in_sync |-> FALSE, stale |-> FALSE]

\* The registry directory with the given content of registry.toml.
HandleDir(content) ==
    Dir({FileEntry(CONFIG_FILE, content), DirEntry(KEYS_DIRECTORY),
         FileEntry(KEY_FILE, <<PemChunk("key1")>>)})

\* The strongest lock a process other than p holds on registry.toml.
HeldByOthers(p) ==
    IF \E q \in HandleProcs \ {p} : handles[q].lock = "WriteLock" THEN "WriteLock"
    ELSE IF \E q \in HandleProcs \ {p} : handles[q].lock = "ReadLock" THEN "ReadLock"
    ELSE "none"

\* The handles after p has written to registry.toml: the processes that are
\* between the release and the acquisition of a lock conversion have missed it.
AfterWriteBy(p, after) ==
    [q \in HandleProcs |->
        IF q # p /\ after[q].phase \in {"lock_write", "lock_read"}
        THEN [after[q] EXCEPT !.stale = TRUE]
        ELSE after[q]]

\* lock_write that opens registry.toml without truncate.
OpenForLockWrite_NoTruncate(content) == content

\* lock_write: registry.toml is opened with read, write and truncate.
OpenForLockWrite(content) == <<>>

\* save_config: write_all of the serialised config at the position of the
\* handle's file.
WriteAtOffset(content, offset, chunk) ==
    SubSeq(content, 1, offset) \o <<chunk>> \o SubSeq(content, offset + 2, Len(content))

\* The registry generated in the directory.  Either its handle is dropped, or
\* p1 still holds it: write-locked, its file positioned after the config that
\* generate has saved.
InitHandle ==
    /\ configFile = <<ConfigChunk(GeneratedConfig("nonce1"))>>
    /\ handles \in
          {[p \in HandleProcs |-> NoHandle],
           [p \in HandleProcs |->
               IF p = "p1"
               THEN [NoHandle EXCEPT !.lock = "WriteLock", !.phase = "held",
                                     !.config = Some(GeneratedConfig("nonce1")),
                                     !.offset = 1, !.opened = "generate",
                                     !.last = "save_config"]
               ELSE NoHandle]}
    /\ DataUnused
    /\ SerdeUnused
    /\ GenUnused
    /\ LoadUnused
    /\ MakeUnused
    /\ LockUnused
    /\ ResolveUnused

HandleUnchanged ==
    UNCHANGED <<dataVars, serdeVars, genVars, loadVars, makeVars, lockVars,
                resolveVars>>

\* OwnedRegistry::<L>::load returns a registry: the file is read to its end.
HandleLoad(p) ==
    /\ handles[p].phase = "none"
    /\ \E lock \in {"ReadLock", "WriteLock"} :
          LET registry == Load(DIRECTORY_PATH, HandleDir(configFile), lock,
                               HeldByOthers(p))
          IN  /\ IsOk(registry)
              /\ handles' = [handles EXCEPT ![p] =
                    [NoHandle EXCEPT !.lock = lock, !.phase = "held",
                                     !.config = Some(registry.val.config),
                                     !.offset = Len(configFile),
                                     !.opened = "load", !.last = "open"]]
    /\ UNCHANGED configFile
    /\ HandleUnchanged

\* The holder of a write-locked registry changes its config (a pub field).
HandleSetConfig(p) ==
    /\ handles[p].phase = "held"
    /\ handles[p].lock = "WriteLock"
    /\ \E config \in HandleConfigs :
          /\ Some(config) # handles[p].config
          /\ handles' = [handles EXCEPT ![p].config = Some(config),
                                        ![p].last = "set_config"]
    /\ UNCHANGED configFile
    /\ HandleUnchanged

\* OwnedRegistry::save_config
HandleSaveConfig(p) ==
    /\ handles[p].phase = "held"
    /\ handles[p].lock = "WriteLock"
    /\ handles[p].offset < MaxFileChunks
    /\ configFile' = WriteAtOffset(configFile, handles[p].offset,
                                   ConfigChunk(handles[p].config.val))
    /\ handles' = AfterWriteBy(p, [handles EXCEPT ![p].offset = @ + 1,
                                                  ![p].last = "save_config"])
    /\ HandleUnchanged

\* lock_write and lock_read up to drop(self.file_lock).
HandleConvertDrops(p) ==
    /\ handles[p].phase = "held"
    /\ handles' = [handles EXCEPT
                      ![p].phase = IF handles[p].lock = "ReadLock"
                                   THEN "lock_write" ELSE "lock_read",
                      ![p].lock = "none",
                      ![p].in_sync =
                          (configFile = <<ConfigChunk(handles[p].config.val)>>),
                      ![p].stale = FALSE]
    /\ UNCHANGED configFile
    /\ HandleUnchanged

\* lock_write from WriteLock::lock on: the file is opened with truncate, at
\* position 0; the config and the signing keys move unchanged.
HandleLockWrite(p) ==
    /\ handles[p].phase = "lock_write"
    /\ LocksCompatible("WriteLock", HeldByOthers(p))
    /\ configFile' = OpenForLockWrite(configFile)
    /\ handles' = AfterWriteBy(p, [handles EXCEPT ![p].phase = "held",
                                                  ![p].lock = "WriteLock",
                                                  ![p].offset = 0,
                                                  ![p].opened = "lock_write",
                                                  ![p].last = "open"])
    /\ HandleUnchanged

\* lock_read from ReadLock::lock on: the file is opened for reading, at
\* position 0; the config and the signing keys move unchanged.
HandleLockRead(p) ==
    /\ handles[p].phase = "lock_read"
    /\ LocksCompatible("ReadLock", HeldByOthers(p))
    /\ handles' = [handles EXCEPT ![p].phase = "held",
                                  ![p].lock = "ReadLock",
                                  ![p].offset = 0,
                                  ![p].opened = "lock_read",
                                  ![p].last = "open"]
    /\ UNCHANGED configFile
    /\ HandleUnchanged

\* lock_write or lock_read does not get the lock and returns the error; the
\* registry it consumed is gone.
HandleConvertRefused(p) ==
    /\ \/ /\ handles[p].phase = "lock_write"
          /\ ~LocksCompatible("WriteLock", HeldByOthers(p))
       \/ /\ handles[p].phase = "lock_read"
          /\ ~LocksCompatible("ReadLock", HeldByOthers(p))
    /\ handles' = [handles EXCEPT ![p] = NoHandle]
    /\ UNCHANGED configFile
    /\ HandleUnchanged

\* The OwnedRegistry is dropped.
HandleDrop(p) ==
    /\ handles[p].phase = "held"
    /\ handles' = [handles EXCEPT ![p] = NoHandle]
    /\ UNCHANGED configFile
    /\ HandleUnchanged

NextHandle ==
    \E p \in HandleProcs :
       \/ HandleLoad(p)
       \/ HandleSetConfig(p)
       \/ HandleSaveConfig(p)
       \/ HandleConvertDrops(p)
       \/ HandleLockWrite(p)
       \/ HandleLockRead(p)
       \/ HandleConvertRefused(p)
       \/ HandleDrop(p)

SpecHandle == InitHandle /\ [][NextHandle]_vars

\* ---- Claim C8 ----------------------------------------------------------
\* The index a data file carries by the naming rule data.<N>.<ext> (N a decimal
\* integer), written out name by name; None for data, data.<ext> and for names
\* whose second segment is no number.
NamedIndex(name) ==
    CASE name = Name_data_0_txt -> Some(0)
      [] name = Name_data_1_txt -> Some(1)
      [] name = Name_data_01_bin -> Some(1)
      [] name = Name_data_2_txt -> Some(2)
      [] OTHER -> None

\* The names of the regular files of the universe whose first segment is "data".
DataNamesOf(entries) ==
    {e.name : e \in {x \in entries : x.is_file}} \ {Name_datab_0_txt}

DataFilesMalformed(entries) ==
    LET names == DataNamesOf(entries)
        indexedNames == {n \in names : IsSome(NamedIndex(n))}
        plainNames == names \ indexedNames
        indexes == {NamedIndex(n).val : n \in indexedNames}
    IN  \/ indexedNames # {} /\ plainNames # {}
        \/ \E a, b \in indexedNames : a # b /\ NamedIndex(a) = NamedIndex(b)
        \/ \E i \in indexes : \E j \in indexes : i < j /\ \E k \in (i + 1)..j : k \notin indexes
        \/ Cardinality(plainNames) > 1

\* C8: get_data_paths returns an error exactly when indexed and non-indexed data
\* files are mixed, two files carry the same index, the indexes have a gap, or more
\* than one non-indexed file exists; otherwise it returns all the data files and
\* nothing else: no file, one non-indexed file, or the indexed files in ascending
\* order i, i+1, ..., i+k-1 from the smallest index. Other files and directories
\* never appear in the result.
C8_DataFileWellFormedness ==
    dataPaths # NotCalled =>
        LET names == DataNamesOf(dirEntries)
        IN  IF DataFilesMalformed(dirEntries)
            THEN IsErr(dataPaths)
            ELSE /\ IsOk(dataPaths)
                 /\ {dataPaths.val[i] : i \in DOMAIN dataPaths.val} = names
                 /\ Len(dataPaths.val) = Cardinality(names)
                 /\ \/ Len(dataPaths.val) = 0
                    \/ Len(dataPaths.val) = 1 /\ ~IsSome(NamedIndex(dataPaths.val[1]))
                    \/ \A i \in DOMAIN dataPaths.val :
                          /\ IsSome(NamedIndex(dataPaths.val[i]))
                          /\ NamedIndex(dataPaths.val[i]).val
                               = NamedIndex(dataPaths.val[1]).val + (i - 1)

\* C8 witness: a directory holding a subdirectory beside two indexed data files,
\* read as the contiguous run 1, 2 from the smallest index present.
C8_Witness ==
    /\ dataPaths # NotCalled
    /\ IsOk(dataPaths)
    /\ dataPaths.val = <<Name_data_1_txt, Name_data_2_txt>>
    /\ Directory(Name_data_3_d) \in dirEntries

\* ---- Claim C7 ----------------------------------------------------------
\* The three states of a DoubleOption<T> field.
IsUnset(r) == r.optional_field = None
IsExplicitNone(r) == r.optional_field = Some(ExplicitOption_None)
IsSomeValue(r) == ~IsUnset(r) /\ ~IsExplicitNone(r)

\* The serialised forms of the three states: the field left out (the empty
\* document), optional_field = "none", and the natural form of v.
C7_SerialisedForms ==
    (original.root = "RootDouble" /\ serialized # NotCalled) =>
        /\ IsUnset(original) => serialized.val = {}
        /\ IsExplicitNone(original) => serialized.val = {KV(FIELD, TStr("none"))}
        /\ IsSomeValue(original) =>
              serialized.val = {KV(FIELD, SerializeT(original.optional_field.val.val))}

\* C7 as stated: for every T and every value v of T, deserialising the serialised
\* form of a DoubleOption<T> field returns the original state.
C7_RoundTripEveryValue ==
    /\ C7_SerialisedForms
    /\ (original.root = "RootDouble" /\ deserialized # NotCalled) =>
            deserialized = Ok(original)

\* The value whose natural form is the sentinel itself: the string "none".
SerialisesAsSentinel(r) ==
    IsSomeValue(r) /\ SerializeT(r.optional_field.val.val) = TStr(ExplicitNone_VALUE)

\* C7 (amended): the three states serialise as the left-out field, as
\* optional_field = "none" and as the natural form of v, and deserialising returns
\* the original state for every value v whose natural form is not the bare string
\* "none"; some-v with such a v comes back as explicit-none.
C7_OptionRoundTrip ==
    /\ C7_SerialisedForms
    /\ (original.root = "RootDouble" /\ deserialized # NotCalled) =>
            IF SerialisesAsSentinel(original)
            THEN deserialized =
                    Ok([original EXCEPT !.optional_field = Some(ExplicitOption_None)])
            ELSE deserialized = Ok(original)

\* C7 witness: the encryption parameters of a record, set, have gone through the
\* round trip.
C7_Witness ==
    /\ deserialized # NotCalled
    /\ original.root = "RootDouble"
    /\ original.optional_field =
            Some(ExplicitOption_Some(VEncryption(Some("Aes256Gcm"), Some(1024))))
    /\ deserialized = Ok(original)

\* ---- Claim C10 ---------------------------------------------------------
\* C10: generate with overwrite false on an existing non-empty directory fails with
\* RegistryAlreadyExists{path} and leaves the directory as it was; on a path that
\* is no directory it fails; on a missing or empty directory it proceeds: the
\* registry is generated, with its registry.toml and its key.
C10_GenerateExistingDirectory ==
    generated # NotCalled =>
        /\ (~overwrite /\ regDirBefore.kind = "dir" /\ regDirBefore.entries # {}) =>
              /\ generated = Err(GenError("RegistryAlreadyExists", DIRECTORY_PATH))
              /\ regDir = regDirBefore
        /\ regDirBefore.kind = "file" =>
              /\ IsErr(generated)
              /\ regDir = regDirBefore
        /\ (regDirBefore.kind = "missing"
            \/ (regDirBefore.kind = "dir" /\ regDirBefore.entries = {})) =>
              /\ IsOk(generated)
              /\ regDir.kind = "dir"
              /\ IsFileAt(regDir.entries, CONFIG_FILE)
              /\ ContentAt(regDir.entries, CONFIG_FILE) = <<ConfigChunk(generated.val.config)>>
              /\ IsFileAt(regDir.entries, KEY_FILE)

\* C10 witness: generate without overwrite has been refused on a directory that
\* holds one unrelated file and no registry.
C10_Witness ==
    /\ generated # NotCalled
    /\ ~overwrite
    /\ regDirBefore = Dir({FileEntry("notes.txt", <<TextChunk("notes")>>)})
    /\ IsErr(generated)
    /\ generated.err.kind = "RegistryAlreadyExists"

\* ---- Claim C6 ----------------------------------------------------------
\* The record name a directory resolves to: the name of its record.toml, or the
\* directory's own name when it has none.
ResolvedName(dirs, path) ==
    IF dirs[path].toml # None THEN dirs[path].toml.val.name
    ELSE IF path = <<>> THEN "root" ELSE path[Len(path)]

\* Two direct subdirectories of parent resolve to the record name name.
NameCollision(dirs, parent, name) ==
    \E c1, c2 \in DirNames :
        /\ c1 # c2
        /\ Append(parent, c1) \in DOMAIN dirs
        /\ Append(parent, c2) \in DOMAIN dirs
        /\ ResolvedName(dirs, Append(parent, c1)) = name
        /\ ResolvedName(dirs, Append(parent, c2)) = name

HasNameCollision(dirs) ==
    \E parent \in DOMAIN dirs : \E name \in DirNames : NameCollision(dirs, parent, name)

\* The config of every record directory resolves against the registry's defaults.
AllParametersResolve(dirs) ==
    \A path \in DOMAIN dirs :
        IsOk(TryResolveWith(LoadConfig(dirs, path), InputConfig.default_record_parameters))

RECURSIVE SuccessiveNamesDistinct(_)
SuccessiveNamesDistinct(record) ==
    /\ \A i, j \in DOMAIN record.successive_records :
          i # j => record.successive_records[i].config.name
                     # record.successive_records[j].config.name
    /\ \A i \in DOMAIN record.successive_records :
          SuccessiveNamesDistinct(record.successive_records[i])

StoredUnder(registry, hashed_key) == {e \in registry : e.hashed_key = hashed_key}

\* The stored version with the greatest version number of a non-empty set.
LatestOf(stored) == CHOOSE e \in stored : \A f \in stored : f.version <= e.version

Counted(statistics, field) ==
    [f \in DOMAIN statistics |-> IF f = field THEN statistics[f] + 1 ELSE statistics[f]]

\* C2: each call of save_record_versioned does exactly one of three things,
\* chosen by what is stored under the hashed key of the record: with nothing
\* stored it saves the output record as version 0 and adds one to
\* records_created only; with a latest version equal to the output record it
\* saves nothing and adds one to records_unchanged only; otherwise it saves the
\* output record as the latest version plus one and adds one to records_updated
\* only.
C2_VersionDecision ==
    [][(pc = "making" /\ pc' = "making" /\ run'.emitted # run.emitted) =>
          LET e == run'.emitted[Len(run'.emitted)]
              stored == StoredUnder(target.val, e.hashed_key)
              saved(version) == [hashed_key |-> e.hashed_key, version |-> version,
                                 record |-> e.record]
          IN  IF stored = {}
              THEN /\ target'.val = target.val \cup {saved(0)}
                   /\ stats' = Counted(stats, "records_created")
              ELSE IF LatestOf(stored).record = e.record
              THEN /\ target'.val = target.val
                   /\ stats' = Counted(stats, "records_unchanged")
              ELSE /\ saved(LatestOf(stored).version + 1) \notin target.val
                   /\ target'.val =
                         target.val \cup {saved(LatestOf(stored).version + 1)}
                   /\ stats' = Counted(stats, "records_updated")]_vars

Decisions(ended) == {ended.emitted[i].decision : i \in 1..Len(ended.emitted)}

\* A first run has created three records and the next run, after an edit, has
\* found one of them changed and the others unchanged.
C2_Witness ==
    /\ prevRun # NotCalled
    /\ lastRun # NotCalled
    /\ IsOk(prevRun.outcome)
    /\ IsOk(lastRun.outcome)
    /\ Len(prevRun.emitted) = 3
    /\ Decisions(prevRun) = {"created"}
    /\ Decisions(lastRun) = {"updated", "unchanged"}

\* ---- Claim C3 ----------------------------------------------------------
\* C3: in every step of every sequence of runs, each record version that is new
\* in the target registry has a version number greater than every version
\* stored under its hashed key before the step, and 0 when none was stored; and
\* every record version stored before the step is stored after it, unchanged.
C3_VersionsMonotonic ==
    [][/\ StoredIn(target) \subseteq StoredIn(target')
       /\ \A e \in StoredIn(target') \ StoredIn(target) :
             LET stored == StoredUnder(StoredIn(target), e.hashed_key)
             IN  /\ \A f \in stored : f.version < e.version
                 /\ stored = {} => e.version = 0]_vars

\* Two runs have stored version 0 and then version 1 under the hashed key of
\* one record, with different records.
C3_Witness ==
    /\ pc = "idle"
    /\ \E e \in StoredIn(target), f \in StoredIn(target) :
          /\ e.hashed_key = f.hashed_key
          /\ e.version = 0
          /\ f.version = 1
          /\ e.record # f.record
          /\ e \in prevRun.after
          /\ f \notin prevRun.after

\* ---- Claim C1 ----------------------------------------------------------
\* The number of records of the tree loaded from a source directory.
NumberOfRecords(src) == Cardinality(DOMAIN src)

\* Two runs in succession on the same target registry, both successful.
SuccessiveBuilds ==
    /\ prevRun # NotCalled
    /\ lastRun # NotCalled
    /\ IsOk(prevRun.outcome)
    /\ IsOk(lastRun.outcome)
    /\ lastRun.before = prevRun.after

\* C1: when make has run twice in succession on the same unchanged source
\* directory and the same target registry, the second run reports no record
\* created, none updated and every record of the tree unchanged, which is the
\* records_created of the first run when that run began with an empty target,
\* and the target registry holds the same record versions after the second run
\* as before it.
C1_EmitterIdempotence ==
    (SuccessiveBuilds /\ lastRun.src = prevRun.src) =>
        /\ lastRun.outcome.val.records_created = 0
        /\ lastRun.outcome.val.records_updated = 0
        /\ lastRun.outcome.val.records_unchanged = NumberOfRecords(lastRun.src)
        /\ prevRun.before = {} =>
              lastRun.outcome.val.records_unchanged =
                  prevRun.outcome.val.records_created
        /\ lastRun.after = lastRun.before

\* A tree of five records is built into an empty target and built again.
C1_Witness ==
    /\ SuccessiveBuilds
    /\ lastRun.src = prevRun.src
    /\ prevRun.before = {}
    /\ prevRun.outcome.val.records_created = 5
    /\ lastRun.outcome.val.records_unchanged = 5

\* ---- Claim C5 ----------------------------------------------------------
\* The hashed keys of the records emitted so far are pairwise distinct.
DistinctHashedKeys(emitted) ==
    \A i \in 1..Len(emitted), j \in 1..Len(emitted) :
        i # j => emitted[i].hashed_key # emitted[j].hashed_key

\* The source directory of the generated template: the root record with the
\* successive records a and b, none with a record.toml.
IsTemplateSource(src) ==
    /\ DOMAIN src = {<<>>, <<"a">>, <<"b">>}
    /\ \A path \in DOMAIN src : src[path].toml = None

\* C5: a successful run that began with an empty target registry reports
\* records_created equal to the number of records of the tree, which is at
\* least 3 for the template, and records_updated = records_unchanged = 0; and
\* no run emits two records of its tree under the same hashed key.
C5_FirstBuild ==
    /\ (pc = "making") => DistinctHashedKeys(run.emitted)
    /\ (lastRun # NotCalled) => DistinctHashedKeys(lastRun.emitted)
    /\ (lastRun # NotCalled /\ IsOk(lastRun.outcome) /\ lastRun.before = {}) =>
          /\ lastRun.outcome.val.records_created = NumberOfRecords(lastRun.src)
          /\ lastRun.outcome.val.records_updated = 0
          /\ lastRun.outcome.val.records_unchanged = 0
          /\ Cardinality(lastRun.after) = NumberOfRecords(lastRun.src)
          /\ IsTemplateSource(lastRun.src) =>
                lastRun.outcome.val.records_created >= 3

\* The template has been built into an empty target: three records created.
C5_Witness ==
    /\ lastRun # NotCalled
    /\ IsOk(lastRun.outcome)
    /\ lastRun.before = {}
    /\ IsTemplateSource(lastRun.src)
    /\ lastRun.outcome.val = [records_created |-> 3, records_updated |-> 0,
                              records_unchanged |-> 0]

\* ---- Claim C4 ----------------------------------------------------------
\* A record directory without successive records.
IsLeaf(src, path) == \A q \in DOMAIN src : q = <<>> \/ ButLast(q) # path

\* The data of a record directory: its data files in order, one after another.
DataOf(entries) ==
    LET data_paths == GetDataPaths(entries).val
    IN  Concat([i \in 1..Len(data_paths) |-> ContentOf(entries, data_paths[i])])

\* Between the two runs the data of the record directory at path was modified
\* and nothing else was.
OnlyDataModifiedAt(path) ==
    /\ DOMAIN lastRun.src = DOMAIN prevRun.src
    /\ \A q \in DOMAIN lastRun.src :
          /\ lastRun.src[q].toml = prevRun.src[q].toml
          /\ q # path => lastRun.src[q].entries = prevRun.src[q].entries
    /\ DataOf(lastRun.src[path].entries) # DataOf(prevRun.src[path].entries)

\* C4: when the data of exactly one leaf record is modified after a successful
\* build and make runs again, the run reports one record updated, none created
\* and the others unchanged, the record updated is that leaf, and the only
\* record version new in the target is under the hashed key of that leaf, at
\* its latest version before the run plus one.
C4_ChangeDetection ==
    SuccessiveBuilds =>
        \A path \in DOMAIN lastRun.src :
            (IsLeaf(lastRun.src, path) /\ OnlyDataModifiedAt(path)) =>
                /\ lastRun.outcome.val =
                      [records_created |-> 0, records_updated |-> 1,
                       records_unchanged |-> NumberOfRecords(lastRun.src) - 1]
                /\ \E i \in 1..Len(lastRun.emitted) :
                      LET e == lastRun.emitted[i]
                          stored == StoredUnder(lastRun.before, e.hashed_key)
                      IN  /\ e.directory_path = path
                          /\ e.decision = "updated"
                          /\ stored # {}
                          /\ lastRun.after \ lastRun.before =
                                {[hashed_key |-> e.hashed_key,
                                  version |-> LatestOf(stored).version + 1,
                                  record |-> e.record]}

\* The data of the leaf a/b of a tree of five records was modified between two
\* successful builds.
C4_Witness ==
    /\ SuccessiveBuilds
    /\ NumberOfRecords(lastRun.src) = 5
    /\ OnlyDataModifiedAt(<<"a", "b">>)
    /\ lastRun.outcome.val.records_updated = 1

\* ---- Claim C9 ----------------------------------------------------------
\* The run ended at a record whose directory holds no data file.
EndedAtRecordWithoutData ==
    /\ lastRun # NotCalled
    /\ IsSome(lastRun.stopped_at)
    /\ GetDataPaths(lastRun.src[lastRun.stopped_at.val].entries) = Ok(<<>>)

\* C9: when the emitter comes to a record whose directory holds no data file,
\* the run ends with the error DataFileMissing returned to the caller of
\* make_recursive.
C9_MissingDataFileIsError ==
    EndedAtRecordWithoutData =>
        lastRun.outcome = Err([kind |-> "DataFileMissing"])

\* ---- Claim C11 ---------------------------------------------------------
\* The keys stored in the files the config names, in the order of
\* config.signing_key_paths.
KeysInPathOrder(entries, config) ==
    [i \in 1..Len(config.signing_key_paths) |->
        ContentAt(entries, config.signing_key_paths[i])[1].body.key]

\* load was called for a read lock after the generated registry had been
\* downgraded to a read lock.
LoadedAfterDowngrade ==
    /\ IsOk(generated)
    /\ reloaded # NotCalled
    /\ loadArgs = [lock |-> "ReadLock", held |-> "ReadLock"]

\* C11: for every freshly generated registry that has been downgraded to a read
\* lock, load on the same directory succeeds and returns a registry equal to
\* the generated one in directory_path, config and signing_keys, the keys being
\* those of the files at config.signing_key_paths in that order.
C11_LoadGenerateRoundTrip ==
    LoadedAfterDowngrade =>
        /\ IsOk(reloaded)
        /\ IsOk(downgraded)
        /\ RegistryEq(reloaded.val, downgraded.val)
        /\ reloaded.val.directory_path = generated.val.directory_path
        /\ reloaded.val.config = generated.val.config
        /\ reloaded.val.signing_keys = generated.val.signing_keys
        /\ reloaded.val.signing_keys =
              KeysInPathOrder(regDir.entries, reloaded.val.config)

\* A registry generated into a missing directory with nonce2 and key2 has been
\* downgraded and loaded again.
C11_Witness ==
    /\ LoadedAfterDowngrade
    /\ regDirBefore = MissingDir
    /\ IsOk(reloaded)
    /\ reloaded.val.config.kdf.root_predecessor_nonce = "nonce2"
    /\ reloaded.val.signing_keys = <<"key2">>
    /\ reloaded.val.file_lock = "ReadLock"

\* ---- Claim C13 ---------------------------------------------------------
\* C13: generation into an empty or missing directory succeeds with the default
\* config, whatever the nonce drawn: hash Argon2 and kdf HKDF with default
\* parameters, default record parameters Fill and AES-256-GCM with segment
\* padding 1024, staging, revisions and published paths under target/, root
\* record path root, the one signing key path keys/key_ed25519.pem, and
\* signing_keys holding exactly the key written to that file.
C13_DefaultConfig ==
    (generated # NotCalled
     /\ (regDirBefore.kind = "missing"
         \/ (regDirBefore.kind = "dir" /\ regDirBefore.entries = {}))) =>
        /\ IsOk(generated)
        /\ LET config == generated.val.config
           IN  /\ config.hash = [algorithm |-> "Argon2(default)",
                                 output_length_in_bytes |-> "default"]
               /\ config.kdf.algorithm = "Hkdf(default)"
               /\ config.kdf.root_predecessor_nonce \in RootNonces
               /\ config.default_record_parameters =
                     [splitting_strategy |-> Some("Fill"),
                      encryption |->
                         Some(ExplicitOption_Some(
                            [algorithm |-> Some("Aes256Gcm"),
                             segment_padding_to_bytes |-> Some(1024)]))]
               /\ config.staging_directory_path = "target/staging"
               /\ config.revisions_directory_path = "target/revisions"
               /\ config.published_directory_path = "target/published"
               /\ config.root_record_path = "root"
               /\ config.signing_key_paths = <<"keys/key_ed25519.pem">>
        /\ Len(generated.val.signing_keys) = 1
        /\ ContentAt(regDir.entries, "keys/key_ed25519.pem") =
              <<PemChunk(generated.val.signing_keys[1])>>

\* Generation into an empty directory with nonce1 and key1.
C13_Witness ==
    /\ IsOk(generated)
    /\ regDirBefore = Dir({})
    /\ generated.val.config.kdf.root_predecessor_nonce = "nonce1"
    /\ generated.val.signing_keys = <<"key1">>

\* ---- Claim C14 ---------------------------------------------------------
\* C14: generate with overwrite true on a directory that holds files, a
\* generated registry with its registry.toml and keys directory among them,
\* completes successfully and returns a write-locked registry whose config is
\* the content of registry.toml.
C14_ForcedGeneration ==
    (generated # NotCalled /\ overwrite
     /\ regDirBefore.kind = "dir" /\ regDirBefore.entries # {}) =>
        /\ IsOk(generated)
        /\ generated.val.file_lock = "WriteLock"
        /\ ContentAt(regDir.entries, CONFIG_FILE) =
              <<ConfigChunk(generated.val.config)>>

\* ---- Claim C12 ---------------------------------------------------------
\* C12: a make invocation holds the write lock on registry.toml for as long as
\* it runs; no two invocations hold the write lock at once, no write lock is
\* held together with a read lock, and no two make invocations run at once: a
\* make started while another one runs does not acquire the lock.
C12_LockExclusion ==
    /\ \A p \in Procs : procPc[p] = "making" => lockHeld[p] = "WriteLock"
    /\ \A p \in Procs, q \in Procs :
          (p # q /\ lockHeld[p] = "WriteLock") => lockHeld[q] = "none"
    /\ \A p \in Procs, q \in Procs :
          (p # q /\ procPc[p] = "making") => procPc[q] # "making"

\* While one make runs, a second make and a read-only load have been refused
\* the lock.
C12_Witness ==
    /\ procPc["p1"] = "making"
    /\ procPc["p2"] = "make_refused"
    /\ procPc["p3"] = "read_refused"
    /\ lockHeld = [p \in Procs |-> IF p = "p1" THEN "WriteLock" ELSE "none"]

\* ---- Claim C15 ---------------------------------------------------------
\* A field of the record if it is set, else the field of the defaults.
RecordOrDefault(field) ==
    IF recordParameters[field] # None THEN recordParameters[field]
    ELSE defaultParameters[field]

\* An encryption whose algorithm or segment padding is not set.
IsPartial(encryption) ==
    /\ encryption # None
    /\ encryption # Some(ExplicitOption_None)
    /\ \/ encryption.val.val.algorithm = None
       \/ encryption.val.val.segment_padding_to_bytes = None

\* Some parameter is still unset after the record's parameters have been merged
\* with the defaults.
SomeParameterUnset ==
    \/ RecordOrDefault("splitting_strategy") = None
    \/ RecordOrDefault("encryption") = None
    \/ IsPartial(RecordOrDefault("encryption"))

\* C15: load_from_directory fails, with incomplete record parameters, if and
\* only if some parameter is unset after the merge of the record's parameters
\* with default_record_parameters; a record that is loaded has its splitting
\* strategy set and its encryption either none or an algorithm together with a
\* segment padding.
C15_ParameterTotality ==
    resolvedConfig # NotCalled =>
        /\ IsErr(resolvedConfig) <=> SomeParameterUnset
        /\ IsErr(resolvedConfig) =>
              resolvedConfig.err.kind = "IncompleteRecordParameters"
        /\ IsOk(resolvedConfig) =>
              LET parameters == resolvedConfig.val.config.parameters
              IN  /\ parameters.splitting_strategy \in {"Fill", "Manual"}
                  /\ \/ parameters.encryption = None
                     \/ /\ IsSome(parameters.encryption)
                        /\ parameters.encryption.val.algorithm \in EncryptionAlgorithms
                        /\ parameters.encryption.val.segment_padding_to_bytes
                              \in SegmentPaddings

\* A record that sets nothing is loaded under defaults that set everything, and
\* a load has failed on a record without splitting strategy anywhere.
C15_Witness ==
    /\ IsErr(resolvedConfig)
    /\ recordParameters = [splitting_strategy |-> None,
                           encryption |-> Some(ExplicitOption_None)]
    /\ defaultParameters.splitting_strategy = None
    /\ defaultParameters.encryption # None
    /\ ~IsPartial(defaultParameters.encryption)

\* ---- Claim C16 ---------------------------------------------------------
\* The merge rule applied to every field and sub-field: the record's value if
\* it is set, else the default's.
MergedEncryptionField(field) ==
    IF recordParameters.encryption.val.val[field] # None
    THEN recordParameters.encryption.val.val[field]
    ELSE defaultParameters.encryption.val.val[field]

BothSetEncryption ==
    /\ recordParameters.encryption \notin {None, Some(ExplicitOption_None)}
    /\ defaultParameters.encryption \notin {None, Some(ExplicitOption_None)}

\* C16: when the record and the defaults both set an encryption, each of its
\* sub-fields algorithm and segment_padding_to_bytes is the record's if the
\* record sets it and the default's otherwise, and the record resolves when
\* every sub-field is set by one of the two and so is the splitting strategy.
C16_MergeRule ==
    (resolvedConfig # NotCalled
     /\ BothSetEncryption
     /\ RecordOrDefault("splitting_strategy") # None
     /\ MergedEncryptionField("algorithm") # None
     /\ MergedEncryptionField("segment_padding_to_bytes") # None) =>
        /\ IsOk(resolvedConfig)
        /\ resolvedConfig.val.config.parameters.splitting_strategy =
              RecordOrDefault("splitting_strategy").val
        /\ resolvedConfig.val.config.parameters.encryption =
              Some([algorithm |-> MergedEncryptionField("algorithm").val,
                    segment_padding_to_bytes |->
                        MergedEncryptionField("segment_padding_to_bytes").val])

\* ---- Claim C17 ---------------------------------------------------------
\* The encryption a fully set DoubleOption stands for once resolved.
ResolvedEncryption(encryption) ==
    IF encryption = Some(ExplicitOption_None) THEN None
    ELSE Some([algorithm |-> encryption.val.val.algorithm.val,
               segment_padding_to_bytes |->
                    encryption.val.val.segment_padding_to_bytes.val])

\* C17: when the splitting strategy is set by the record or the defaults, a
\* record whose encryption is unset resolves to the encryption of the defaults
\* (and fails to resolve when the defaults do not set one in full); a record
\* whose encryption is explicit-none resolves to no encryption whatever the
\* defaults; a record whose encryption is fully specified resolves to it
\* whatever the defaults.
C17_ThreeValuedEncryption ==
    (resolvedConfig # NotCalled /\ RecordOrDefault("splitting_strategy") # None) =>
        /\ recordParameters.encryption = None =>
              IF defaultParameters.encryption = None
                 \/ IsPartial(defaultParameters.encryption)
              THEN IsErr(resolvedConfig)
              ELSE /\ IsOk(resolvedConfig)
                   /\ resolvedConfig.val.config.parameters.encryption =
                         ResolvedEncryption(defaultParameters.encryption)
        /\ recordParameters.encryption = Some(ExplicitOption_None) =>
              /\ IsOk(resolvedConfig)
              /\ resolvedConfig.val.config.parameters.encryption = None
        /\ (recordParameters.encryption \notin {None, Some(ExplicitOption_None)}
            /\ ~IsPartial(recordParameters.encryption)) =>
              /\ IsOk(resolvedConfig)
              /\ resolvedConfig.val.config.parameters.encryption =
                    ResolvedEncryption(recordParameters.encryption)

\* A record with explicit-none encryption has resolved to no encryption under
\* defaults that set an encryption.
C17_Witness ==
    /\ IsOk(resolvedConfig)
    /\ recordParameters.encryption = Some(ExplicitOption_None)
    /\ defaultParameters.encryption =
          Some(ExplicitOption_Some([algorithm |-> Some("Aes256Gcm"),
                                    segment_padding_to_bytes |-> Some(1024)]))
    /\ resolvedConfig.val.config.parameters.encryption = None

\* ---- Claim C18 ---------------------------------------------------------
\* The lengths of the data files, in the order of get_data_paths.
DataFileLengths ==
    LET data_paths == GetDataPaths(dirEntries).val
    IN  [i \in 1..Len(data_paths) |-> Len(ContentOf(dirEntries, data_paths[i]))]

RECURSIVE SumOfLengths(_)
SumOfLengths(lengths) ==
    IF lengths = <<>> THEN 0 ELSE Head(lengths) + SumOfLengths(Tail(lengths))

\* l1, l1+l2, ..., l1+...+l(k-1)
CumulativeLengths(lengths) ==
    [i \in 1..(Len(lengths) - 1) |-> SumOfLengths(SubSeq(lengths, 1, i))]

\* C18: read of a record with k >= 1 data files yields the files concatenated
\* in the order of get_data_paths; under Manual splitting split_at is the k-1
\* cumulative lengths l1, l1+l2, ..., l1+...+l(k-1); under Fill splitting there
\* are no split points.
C18_SplitPoints ==
    (readResult # NotCalled /\ IsOk(GetDataPaths(dirEntries))
     /\ GetDataPaths(dirEntries).val # <<>>) =>
        /\ IsOk(readResult)
        /\ IsSome(readResult.val)
        /\ readResult.val.val.read =
              Concat([i \in 1..Len(GetDataPaths(dirEntries).val) |->
                        ContentOf(dirEntries, GetDataPaths(dirEntries).val[i])])
        /\ readResult.val.val.split_at =
              IF splittingStrategy = "Manual"
              THEN Some(CumulativeLengths(DataFileLengths))
              ELSE None

\* ---- Claim C19 ---------------------------------------------------------
\* The hashed key the chain of names of a record path stands for: the root is
\* keyed with the root nonce of the registry, every other record with the
\* succession nonce derived from the hashed key of its parent.
RECURSIVE HashedKeyOfPath(_)
HashedKeyOfPath(record_path) ==
    HashKey([record_name |-> record_path[Len(record_path)],
             predecessor_nonce |->
                IF Len(record_path) = 1
                THEN RootPredecessorNonce(InputConfig)
                ELSE DeriveSuccessionNonce(HashedKeyOfPath(ButLast(record_path)))])

\* The emissions of the run under way and of the last two runs that ended.
EmissionLogs ==
    {log.emitted : log \in {r \in {run, lastRun, prevRun} : r # NotCalled}}

\* C19: every record is emitted under the hashed key of its chain of names, and
\* every call of make_recursive still to come carries the root nonce for the
\* root record and the succession nonce of the parent's hashed key otherwise;
\* so a record path has the same hashed key in every run, whatever the data,
\* the order of the siblings and the content of the target registry.
C19_RecordIdentity ==
    /\ \A emitted \in EmissionLogs : \A i \in 1..Len(emitted) :
          emitted[i].hashed_key = HashedKeyOfPath(emitted[i].record_path)
    /\ \A i \in 1..Len(stack) :
          stack[i].predecessor_nonce =
             IF stack[i].path_to_parent_record = <<>>
             THEN RootPredecessorNonce(InputConfig)
             ELSE DeriveSuccessionNonce(HashedKeyOfPath(stack[i].path_to_parent_record))
    /\ (lastRun # NotCalled /\ prevRun # NotCalled) =>
          \A i \in 1..Len(lastRun.emitted), j \in 1..Len(prevRun.emitted) :
             lastRun.emitted[i].record_path = prevRun.emitted[j].record_path =>
                lastRun.emitted[i].hashed_key = prevRun.emitted[j].hashed_key

\* Two runs have emitted a successive record of the root with different data
\* into target registries of different content, under the same hashed key.
C19_Witness ==
    /\ lastRun # NotCalled
    /\ prevRun # NotCalled
    /\ lastRun.before # prevRun.before
    /\ \E i \in 1..Len(lastRun.emitted), j \in 1..Len(prevRun.emitted) :
          /\ Len(lastRun.emitted[i].record_path) = 2
          /\ lastRun.emitted[i].record_path = prevRun.emitted[j].record_path
          /\ lastRun.emitted[i].record # prevRun.emitted[j].record
          /\ lastRun.emitted[i].hashed_key = prevRun.emitted[j].hashed_key

\* ---- Claim C20 ---------------------------------------------------------
IsPrefix(p, q) == Len(p) <= Len(q) /\ SubSeq(q, 1, Len(p)) = p

\* The emissions of a run are depth-first: a record is emitted after its
\* parent, and between a record and any record of its subtree only records of
\* that subtree are emitted.
DepthFirst(emitted) ==
    /\ \A i \in 1..Len(emitted) :
          Len(emitted[i].record_path) > 1 =>
             \E j \in 1..(i - 1) :
                emitted[j].record_path = ButLast(emitted[i].record_path)
    /\ \A i \in 1..Len(emitted), j \in 1..Len(emitted), k \in 1..Len(emitted) :
          (i < j /\ j < k
           /\ IsPrefix(emitted[i].record_path, emitted[k].record_path)) =>
             IsPrefix(emitted[i].record_path, emitted[j].record_path)

\* The successive records of a record are all emitted before any successive
\* record of one of them.
SiblingsBeforeDescent(emitted) ==
    \A i \in 1..Len(emitted), k \in 1..Len(emitted) :
       (/\ Len(emitted[i].record_path) > 1
        /\ Len(emitted[k].record_path) = Len(emitted[i].record_path) + 1
        /\ ButLast(ButLast(emitted[k].record_path)) =
              ButLast(emitted[i].record_path)) => i < k

\* C20 as stated: in every run that the emitter completes, all successive
\* records of a record are emitted before any successive record of any of them.
C20_SiblingsBeforeDescent ==
    (lastRun # NotCalled /\ IsOk(lastRun.outcome)) =>
        SiblingsBeforeDescent(lastRun.emitted)

\* C20 amended: in every run, at every moment, a record is emitted after its
\* parent and the whole subtree of a record is emitted before the next
\* successive record of its parent.
C20_DepthFirstEmission ==
    \A emitted \in EmissionLogs : DepthFirst(emitted)

\* A completed run has emitted the root, a successive record, a successive
\* record of that one, and then the second successive record of the root.
C20_Witness ==
    /\ lastRun # NotCalled
    /\ IsOk(lastRun.outcome)
    /\ Len(lastRun.emitted) = 4
    /\ Len(lastRun.emitted[2].record_path) = 2
    /\ Len(lastRun.emitted[3].record_path) = 3
    /\ Len(lastRun.emitted[4].record_path) = 2
    /\ lastRun.emitted[4].decision = "created"

\* ---- Claim C21 ---------------------------------------------------------
\* The end of the emitter run on the source and the target registry the last
\* run started with, the successive records loaded in the given order.
EmitterRun(order) ==
    LET root == LoadRootRecord(lastRun.src, InputConfig, order)
    IN  MakeRecursive(Frame(root.val, RootPredecessorNonce(InputConfig), <<>>),
                      [src |-> lastRun.src, registry |-> lastRun.before,
                       stats |-> ZeroStatistics, outcome |-> Ok(ZeroStatistics)])

\* The last run has returned and the source directory is as the run read it;
\* the run called make_recursive and no call into the registry library returned
\* an error.
EmitterRan ==
    /\ pc = "idle"
    /\ lastRun # NotCalled
    /\ lastRun.src = srcDir
    /\ lastRun.emitted # <<>>
    /\ ~(IsErr(lastRun.outcome)
         /\ lastRun.outcome.err.kind \in StepsBeforeSave \cup StepsAfterSave)

\* C21 as stated: the emitter ends in the same target registry contents and
\* the same statistics in whatever order the successive records are enumerated,
\* for every source tree.
C21_SiblingOrderIndependence ==
    EmitterRan =>
        \A order \in Perms(DirNames) :
           LET end == EmitterRun(order)
           IN  /\ end.registry = lastRun.after
               /\ IsOk(lastRun.outcome) => end.outcome = lastRun.outcome

\* C21 amended: a run of the emitter that succeeds with one order of the
\* successive records succeeds with every order, with the same target registry
\* contents and the same statistics; a run that fails with one order fails with
\* every order.
C21_OrderIndependenceOfSuccess ==
    EmitterRan =>
        \A order \in Perms(DirNames) :
           LET end == EmitterRun(order)
           IN  IF IsOk(lastRun.outcome)
               THEN /\ end.outcome = lastRun.outcome
                    /\ end.registry = lastRun.after
               ELSE ~IsOk(end.outcome)

\* A run has succeeded on a source in which the root has two successive records
\* and one of them has a successive record, on a target registry that held
\* record versions already, and has updated a record.
C21_Witness ==
    /\ EmitterRan
    /\ IsOk(lastRun.outcome)
    /\ {<<"a">>, <<"b">>} \subseteq DOMAIN lastRun.src
    /\ Cardinality(DOMAIN lastRun.src) = 4
    /\ lastRun.before # {}
    /\ lastRun.outcome.val.records_updated = 1
    /\ \E o1 \in Perms(DirNames), o2 \in Perms(DirNames) :
          LoadRootRecord(lastRun.src, InputConfig, o1)
             # LoadRootRecord(lastRun.src, InputConfig, o2)

\* ---- Claim C22 ---------------------------------------------------------
\* The number of the emitted records with the given version decision.
DecisionCount(emitted, decision) ==
    Cardinality({i \in 1..Len(emitted) : emitted[i].decision = decision})

\* The statistics count the version decisions of the emitted records, and no
\* record directory is emitted twice.
CountsEmitted(statistics, emitted) ==
    /\ statistics.records_created = DecisionCount(emitted, "created")
    /\ statistics.records_updated = DecisionCount(emitted, "updated")
    /\ statistics.records_unchanged = DecisionCount(emitted, "unchanged")
    /\ Report(statistics).checked = Len(emitted)
    /\ \A i \in 1..Len(emitted), j \in 1..Len(emitted) :
          emitted[i].directory_path = emitted[j].directory_path => i = j

\* C22: at every point of a run the three counters count the records whose
\* version decision is made, each record once; after a successful run every
\* record of the source tree has been visited exactly once, the records checked
\* in total are the records of the tree, and the target registry is reported
\* as updated exactly when records_created + records_updated > 0, which is
\* exactly when its contents have changed.
C22_StatisticsAccounting ==
    /\ pc = "making" => CountsEmitted(stats, run.emitted)
    /\ (lastRun # NotCalled /\ IsOk(lastRun.outcome)) =>
          LET statistics == lastRun.outcome.val
          IN  /\ CountsEmitted(statistics, lastRun.emitted)
              /\ {lastRun.emitted[i].directory_path : i \in 1..Len(lastRun.emitted)}
                    = DOMAIN lastRun.src
              /\ Report(statistics).checked = NumberOfRecords(lastRun.src)
              /\ Report(statistics).updated <=>
                    statistics.records_created + statistics.records_updated > 0
              /\ Report(statistics).updated <=> lastRun.after # lastRun.before

\* A successful run over four records has updated one record, created none and
\* found three unchanged.
C22_Witness ==
    /\ lastRun # NotCalled
    /\ IsOk(lastRun.outcome)
    /\ lastRun.outcome.val = [records_created |-> 0, records_updated |-> 1,
                              records_unchanged |-> 3]
    /\ Len(lastRun.emitted) = 4
    /\ Report(lastRun.outcome.val) = [updated |-> TRUE, checked |-> 4]

\* ---- Claim C23 ---------------------------------------------------------
\* The record versions a run has saved: one for every emitted record that was
\* created or updated.
SavedBy(emitted) ==
    {[hashed_key |-> emitted[i].hashed_key, version |-> emitted[i].version,
      record |-> emitted[i].record] :
        i \in {j \in 1..Len(emitted) : emitted[j].decision # "unchanged"}}

\* C23: when a step for a record fails during a build, the run ends at once
\* with that error: no call of make_recursive is pending or made afterwards, no
\* record is emitted after the one at which the step failed, and the target
\* registry holds what it held before the run together with every record
\* version the run saved before the failure, that of the failing record
\* included when the step that failed came after its save.
C23_ErrorPropagation ==
    (lastRun # NotCalled /\ ~IsOk(lastRun.outcome)) =>
        /\ pc = "idle"
        /\ stack = <<>>
        /\ run = NotCalled
        /\ IsSome(lastRun.stopped_at)
        /\ \A i \in 1..Len(lastRun.emitted) :
              lastRun.emitted[i].directory_path = lastRun.stopped_at.val =>
                 /\ i = Len(lastRun.emitted)
                 /\ lastRun.outcome.err.kind \in StepsAfterSave
        /\ IsErr(GetDataPaths(lastRun.src[lastRun.stopped_at.val].entries)) =>
              lastRun.outcome =
                 Err([kind |-> GetDataPaths(
                                  lastRun.src[lastRun.stopped_at.val].entries).err])
        /\ Len(lastRun.emitted) <= NumberOfRecords(lastRun.src)
        /\ target = Some(lastRun.after)
        /\ lastRun.after = lastRun.before \cup SavedBy(lastRun.emitted)

\* A run over four records has saved two of them and ended with the error of
\* derive_succession_nonce for the second; both record versions are stored.
C23_Witness ==
    /\ lastRun # NotCalled
    /\ lastRun.outcome = Err([kind |-> "derive_succession_nonce"])
    /\ NumberOfRecords(lastRun.src) = 4
    /\ Len(lastRun.emitted) = 2
    /\ Cardinality(lastRun.after) = 2
    /\ target = Some(lastRun.after)
    /\ pc = "idle"

\* ---- Claim C27 ---------------------------------------------------------
\* The directory holds a registry: load, asked of it with no lock held,
\* returns a registry.
HoldsRegistry(dir) == IsOk(Load(DIRECTORY_PATH, dir, "ReadLock", "none"))

\* C27: when generate returns an error for a directory that holds a registry,
\* registry.toml and the key files have the content they had before the call,
\* and load returns the registry it returned before.
C27_FailedGenerationKeepsRegistry ==
    (generated # NotCalled /\ IsErr(generated) /\ HoldsRegistry(regDirBefore)) =>
        /\ regDir.kind = "dir"
        /\ IsFileAt(regDir.entries, CONFIG_FILE)
        /\ ContentAt(regDir.entries, CONFIG_FILE) =
              ContentAt(regDirBefore.entries, CONFIG_FILE)
        /\ IsFileAt(regDir.entries, KEY_FILE)
        /\ ContentAt(regDir.entries, KEY_FILE) =
              ContentAt(regDirBefore.entries, KEY_FILE)
        /\ Load(DIRECTORY_PATH, regDir, "ReadLock", "none") =
              Load(DIRECTORY_PATH, regDirBefore, "ReadLock", "none")

\* ---- Claim C24 ---------------------------------------------------------
\* The process holds an OwnedRegistry.
Holds(p) == handles # <<>> /\ handles[p].phase = "held"

\* load on the registry directory, no lock held, returns a registry with the
\* given config.
LoadReturns(config) ==
    LET registry == Load(DIRECTORY_PATH, HandleDir(configFile), "ReadLock", "none")
    IN  IsOk(registry) /\ registry.val.config = config

\* C24: whenever save_config has completed on a handle, registry.toml is
\* exactly one serialised copy of the handle's config, and a load returns an
\* equal config.
C24_SaveConfigStoresConfig ==
    \A p \in HandleProcs :
       (Holds(p) /\ handles[p].last = "save_config") =>
          /\ configFile = <<ConfigChunk(handles[p].config.val)>>
          /\ LoadReturns(handles[p].config.val)

\* ---- Claim C25 ---------------------------------------------------------
\* The handle of p comes from the given lock conversion, which began with
\* registry.toml holding exactly the handle's config and during which no other
\* process wrote to registry.toml.
Converted(p, conversion) ==
    /\ Holds(p)
    /\ handles[p].opened = conversion
    /\ handles[p].in_sync
    /\ ~handles[p].stale

\* C25 as stated: after lock_write or lock_read has returned and before any
\* save_config, registry.toml deserialises to the handle's config.
C25_ConversionKeepsStoredConfig ==
    \A p \in HandleProcs :
       ((Converted(p, "lock_write") \/ Converted(p, "lock_read"))
        /\ handles[p].last = "open") =>
          LoadReturns(handles[p].config.val)

\* C25 amended: after lock_read has returned registry.toml is as it was and
\* deserialises to the handle's config; after lock_write has returned
\* registry.toml is empty, which load rejects, until the first save_config on
\* the handle, after which it is exactly one serialised copy of the handle's
\* config.
C25_ConversionAndStoredConfig ==
    \A p \in HandleProcs :
       /\ Converted(p, "lock_read") =>
             /\ configFile = <<ConfigChunk(handles[p].config.val)>>
             /\ LoadReturns(handles[p].config.val)
       /\ (Holds(p) /\ handles[p].opened = "lock_write" /\ handles[p].offset = 0) =>
             /\ configFile = <<>>
             /\ IsErr(Load(DIRECTORY_PATH, HandleDir(configFile), "ReadLock", "none"))
       /\ (Holds(p) /\ handles[p].opened = "lock_write" /\ handles[p].offset = 1
           /\ handles[p].last = "save_config") =>
             /\ configFile = <<ConfigChunk(handles[p].config.val)>>
             /\ LoadReturns(handles[p].config.val)

\* lock_write has returned on a registry whose registry.toml held its config:
\* the file is empty and the config is in memory only.
C25_Witness ==
    /\ Converted("p1", "lock_write")
    /\ handles["p1"].last = "open"
    /\ handles["p1"].config = Some(GeneratedConfig("nonce1"))
    /\ configFile = <<>>
    /\ handles["p2"] = NoHandle

\* ---- Claim C26 ---------------------------------------------------------
\* The process is between the release and the acquisition of a conversion.
Converting(p) == handles # <<>> /\ handles[p].phase \in {"lock_write", "lock_read"}

\* C26 as stated: while a process converts its lock no other process holds the
\* write lock, and no handle has a config that another process has written
\* over in registry.toml.
C26_ConversionAtomic ==
    \A p \in HandleProcs :
       /\ Converting(p) => HeldByOthers(p) # "WriteLock"
       /\ Holds(p) => ~handles[p].stale

\* C26 amended: the locks exclude each other at every moment, conversions
\* included: a write lock is held with no other lock, and a process that is
\* converting holds no lock but keeps its config; only a handle that has been
\* converted can have missed the write of another process.
C26_LocksExclusiveThroughConversion ==
    handles # <<>> =>
       \A p \in HandleProcs :
          /\ handles[p].lock = "WriteLock" => HeldByOthers(p) = "none"
          /\ Converting(p) => (handles[p].lock = "none" /\ IsSome(handles[p].config))
          /\ (Holds(p) /\ handles[p].stale) =>
                handles[p].opened \in {"lock_write", "lock_read"}

\* p1 has upgraded its read lock while p2, in between, took the write lock,
\* wrote another config and dropped its handle: p1 holds the write lock with
\* the config it had read before.
C26_Witness ==
    /\ Holds("p1")
    /\ handles["p1"].opened = "lock_write"
    /\ handles["p1"].stale
    /\ handles["p1"].in_sync
    /\ handles["p1"].config = Some(GeneratedConfig("nonce1"))
    /\ handles["p2"] = NoHandle

====
